---------------------------- MODULE Spec2Model ----------------------------
(***************************************************************************)
(* A model of the cork-sim simulation engine: wallets, the borrow ledger,  *)
(* the AMM pools, the peg stability module, the vault and the block loop   *)
(* of Blockchain.start_mining.                                             *)
(*                                                                         *)
(* Numbers.  The program computes in double precision.  The model computes *)
(* in fixed point: an amount a of the program is the integer a * SCALE,    *)
(* products and quotients are rounded down.  Fees and yields are given in  *)
(* parts per thousand.  Python dictionaries are functions whose DOMAIN is  *)
(* the set of keys present.  A Python call is an operator from a world     *)
(* (the record of all objects' fields) to a result: the world it leaves,   *)
(* the exception it raised ("ok" when none) and the value it returned.     *)
(***************************************************************************)
EXTENDS Integers, Sequences, FiniteSets, TLC

(***************************************************************************)
(* Bounds of the model                                                     *)
(***************************************************************************)
SCALE == 1000
NumBlocks == 3
MaxCalls == 2
LoopFuel == 8
BaseReserve == 9
LstReserve == 10
InitialEthBalance == 4
InitialAgentBalance == 2
GenesisEth == 10
PsmSeed == 1
InitialYieldPerBlock == 100
InitialEthYieldPerBlock == 0
AmountSmall == 100
AmountUnit == 1000
MaxLedgerCalls == 3
MaxAmount == 40
PsmExpiryAfterBlock == 2
MaxEvents == 2
DepegSmall == 100
DepegHalf == 500
DepegOver == 1500
\* the fan-out: the simulations one worker process runs, and an ETH yield above zero
MaxSimulations == 2
MonteCarloEthYield == 10

(***************************************************************************)
(* Constants of the program                                                *)
(***************************************************************************)
PerMille == SCALE
AmmFee == 3
RedemptionFee == 1
RepurchaseFee == 50
Risk == 100
ReserveCt == 400

Agents == {"a1", "a2"}
VaultWallet == "vault"
GenesisWallet == "genesis"
EventWallet == "em"
Wallets == Agents \cup {VaultWallet, GenesisWallet, EventWallet}

LST == "X"
CT == "CT_X"
DS == "DS_X"
Tokens == {LST, CT, DS}
VaultPool == "V_X"

(***************************************************************************)
(* Fixed-point arithmetic.  A double has a wide range: a quotient by a     *)
(* tiny number is a huge number, not an error.  The operators below        *)
(* compute floor(a * b / c) without an intermediate wider than the result, *)
(* and a result beyond Huge is Huge.                                       *)
(***************************************************************************)
Huge == 1000000 * SCALE
Abs(a) == IF a < 0 THEN 0 - a ELSE a

\* << q, rem >> with r * m = q * d + rem and 0 <= rem < d, for 0 <= r < d and m >= 0
RECURSIVE MulDivQR(_, _, _)
MulDivQR(r, m, d) ==
    IF m = 0 THEN << 0, 0 >>
    ELSE LET h == MulDivQR(r, m \div 2, d)
             t == 2 * h[2] + (m % 2) * r
         IN  << 2 * h[1] + t \div d, t % d >>

\* floor(x * y / z) of magnitudes, negated (and rounded down) when neg; the product
\* is wider than the machine word: qx is x \div z and h is MulDivQR(x % z, y, z)
MulDivWide(qx, h, y, neg) ==
    IF (qx > 0 /\ y > Huge \div qx) \/ qx * y + h[1] > Huge
    THEN IF neg THEN 0 - Huge ELSE Huge
    ELSE IF neg THEN 0 - (qx * y + h[1] + (IF h[2] > 0 THEN 1 ELSE 0))
    ELSE qx * y + h[1]

MulDivAbs(x, y, z, neg) ==
    IF x <= 46340 /\ y <= 46340
    THEN IF neg THEN 0 - ((x * y + z - 1) \div z) ELSE (x * y) \div z
    ELSE MulDivWide(x \div z, MulDivQR(x % z, y, z), y, neg)

\* floor(a * b / c), c # 0
MulDiv(a, b, c) == MulDivAbs(Abs(a), Abs(b), Abs(c), ((a < 0) # (b < 0)) # (c < 0))

Mul(a, b) == MulDiv(a, b, SCALE)
Div(a, b) == MulDiv(a, SCALE, b)
Frac(a, pm) == Mul(a, pm)
Unfrac(a, pm) == Div(a, pm)
Min(a, b) == IF a <= b THEN a ELSE b
RECURSIVE IPow(_, _)
IPow(r, n) == IF n = 0 THEN 1 ELSE r * IPow(r, n - 1)
RECURSIVE RootSearch(_, _, _, _)
RootSearch(x, n, lo, hi) ==
    IF lo >= hi THEN lo
    ELSE LET mid == (lo + hi + 1) \div 2
         IN  IF IPow(mid, n) <= x THEN RootSearch(x, n, mid, hi)
             ELSE RootSearch(x, n, lo, mid - 1)
RootBound(n) == IF n = 1 THEN 2000000 ELSE IF n = 2 THEN 46000 ELSE IF n = 3 THEN 1200 ELSE 200
IRoot(x, n) == RootSearch(x, n, 0, Min(x, RootBound(n)))

(***************************************************************************)
(* Python dictionaries                                                     *)
(***************************************************************************)
Get(d, k, default) == IF k \in DOMAIN d THEN d[k] ELSE default
Put(d, k, v) == [x \in (DOMAIN d) \cup {k} |-> IF x = k THEN v ELSE d[x]]
Del(d, k) == [x \in (DOMAIN d) \ {k} |-> d[x]]
EmptyDict == [x \in {} |-> 0]
RECURSIVE SumOver(_, _)
SumOver(d, keys) ==
    IF keys = {} THEN 0
    ELSE LET k == CHOOSE x \in keys : TRUE IN d[k] + SumOver(d, keys \ {k})
SumDict(d) == SumOver(d, DOMAIN d)

(***************************************************************************)
(* Results of calls                                                        *)
(***************************************************************************)
Ok(s) == [s |-> s, err |-> "ok", ret |-> 0]
Ret(s, v) == [s |-> s, err |-> "ok", ret |-> v]
Raise(s, e) == [s |-> s, err |-> e, ret |-> 0]
Failed(r) == r.err # "ok"

(***************************************************************************)
(* The state: the fields of the objects of one simulation                  *)
(***************************************************************************)
VARIABLES
    eth_balance,          \* Wallet.eth_balance of every wallet
    token_balances,       \* Wallet.token_balances (a dict) of every wallet
    lpt_balances,         \* Wallet.lpt_balances (a dict) of every wallet
    borrowed_eth,         \* Blockchain.borrowed_eth
    total_borrowed_eth,   \* Blockchain.total_borrowed_eth
    borrowed_token,       \* Blockchain.borrowed_token
    total_borrowed_token, \* Blockchain.total_borrowed_token
    pools,                \* the AMM of every token: reserves, LPT supply, holders, fee ledgers
    psm,                  \* the PegStabilityModule: reserves and fee totals
    lp_token_supply,      \* Vault.lp_token_supply
    lp_holders,           \* Vault.lp_holders
    yield_per_block,      \* Blockchain.tokens[token]['yield_per_block']
    eth_yield_per_block,  \* Blockchain.eth_yield_per_block
    eth_yield,            \* Blockchain.eth_yield, the attribute _adjust_eth_yield writes
    current_block,        \* Blockchain.current_block
    actions,              \* Blockchain.actions, the log of the current block
    all_actions,          \* Blockchain.all_actions, the logs of the blocks mined
    profile,              \* the kind of agents registered with the run
    agents,               \* Blockchain.agents, in the order of the last shuffle
    stats,                \* Blockchain.stats: the blocks of the rows of every table
    pc,                   \* the position of start_mining
    turn_index,           \* start_mining: the position of the loop over the agents
    turn,                 \* the agent whose on_block_mined is running, or NoAgent
    error,                \* the exception that ended start_mining, or "none"
    budget,               \* the number of calls the registered agents make in a run
    calls,                \* the number of calls the agents have made
    last,                 \* the last call an agent made and how it ended
    phases,               \* history: what has happened in the current block, in order
    owed,                 \* history: ETH lent by borrow_eth calls of agents and not yet
                          \* taken back from the wallet by a repay_eth call that returned
    twin_agents,          \* history: the order a second run of the same configuration has
                          \* drawn at the same random.shuffle
    origin                \* the engine this one was deep-copied from: the simulation the
                          \* copy runs (0: the engine is no copy), the wallets that
                          \* Wallet.wallets holds, the class attribute Blockchain.current_block

vars == << eth_balance, token_balances, lpt_balances, borrowed_eth, total_borrowed_eth,
           borrowed_token, total_borrowed_token, pools, psm, lp_token_supply, lp_holders,
           yield_per_block, eth_yield_per_block, eth_yield, current_block, actions,
           all_actions, profile, agents, stats, pc, turn_index, turn, error, budget, calls, last, phases, owed,
           twin_agents, origin >>

World ==
    [ eth_balance |-> eth_balance,
      token_balances |-> token_balances,
      lpt_balances |-> lpt_balances,
      borrowed_eth |-> borrowed_eth,
      total_borrowed_eth |-> total_borrowed_eth,
      borrowed_token |-> borrowed_token,
      total_borrowed_token |-> total_borrowed_token,
      pools |-> pools,
      psm |-> psm,
      lp_token_supply |-> lp_token_supply,
      lp_holders |-> lp_holders,
      yield_per_block |-> yield_per_block,
      eth_yield_per_block |-> eth_yield_per_block,
      eth_yield |-> eth_yield,
      current_block |-> current_block,
      actions |-> actions ]

Commit(s) ==
    /\ eth_balance' = s.eth_balance
    /\ token_balances' = s.token_balances
    /\ lpt_balances' = s.lpt_balances
    /\ borrowed_eth' = s.borrowed_eth
    /\ total_borrowed_eth' = s.total_borrowed_eth
    /\ borrowed_token' = s.borrowed_token
    /\ total_borrowed_token' = s.total_borrowed_token
    /\ pools' = s.pools
    /\ psm' = s.psm
    /\ lp_token_supply' = s.lp_token_supply
    /\ lp_holders' = s.lp_holders
    /\ yield_per_block' = s.yield_per_block
    /\ eth_yield_per_block' = s.eth_yield_per_block
    /\ eth_yield' = s.eth_yield
    /\ current_block' = s.current_block
    /\ actions' = s.actions

\* Blockchain.add_action
add_action(s, action) == [s EXCEPT !.actions = Append(@, action)]
\* start_mining: self.actions.append("Protocol actions ...")
add_action_marker(s) == [s EXCEPT !.actions = Append(@, "Protocol actions ...")]

(***************************************************************************)
(* Wallet (simulator/wallet.py)                                            *)
(***************************************************************************)
deposit_eth(s, w, amount) ==
    IF amount < 0 THEN Raise(s, "ValueError")
    ELSE Ok([s EXCEPT !.eth_balance[w] = @ + amount])

\* a mistaken withdrawal: the balance is not compared with the amount
withdraw_eth_unchecked(s, w, amount) == Ok([s EXCEPT !.eth_balance[w] = @ - amount])

withdraw_eth(s, w, amount) ==
    IF amount > s.eth_balance[w] THEN Raise(s, "ValueError")
    ELSE Ok([s EXCEPT !.eth_balance[w] = @ - amount])

deposit_token(s, w, token, amount) ==
    IF amount < 0 THEN Raise(s, "ValueError")
    ELSE Ok([s EXCEPT !.token_balances[w] = Put(@, token, Get(@, token, 0) + amount)])

withdraw_token(s, w, token, amount) ==
    IF token \notin DOMAIN s.token_balances[w] \/ amount > s.token_balances[w][token]
    THEN Raise(s, "ValueError")
    ELSE Ok([s EXCEPT !.token_balances[w][token] = @ - amount])

token_balance(s, w, token) == Get(s.token_balances[w], token, 0)

deposit_lpt(s, w, pool_name, amount) ==
    IF amount < 0 THEN Raise(s, "ValueError")
    ELSE Ok([s EXCEPT !.lpt_balances[w] = Put(@, pool_name, Get(@, pool_name, 0) + amount)])

withdraw_lpt(s, w, pool_name, amount) ==
    IF pool_name \notin DOMAIN s.lpt_balances[w] \/ amount > s.lpt_balances[w][pool_name]
    THEN Raise(s, "ValueError")
    ELSE Ok([s EXCEPT !.lpt_balances[w][pool_name] = @ - amount])

lpt_balance(s, w, pool_name) == Get(s.lpt_balances[w], pool_name, 0)

(***************************************************************************)
(* Borrowing and repayment (simulator/blockchain.py)                       *)
(***************************************************************************)
borrow_eth(s, w, amount_eth) ==
    IF amount_eth <= 0 THEN Raise(s, "ValueError")
    ELSE LET s1 == [s EXCEPT !.total_borrowed_eth = @ + amount_eth,
                             !.borrowed_eth = Put(@, w, Get(@, w, 0) + amount_eth)]
             r2 == deposit_eth(s1, w, amount_eth)
         IN  IF Failed(r2) THEN r2 ELSE Ok(add_action(r2.s, "borrowed ETH"))

\* a mistaken repayment: the total is reduced, the entry of the wallet is not
repay_eth_total_only(s, w, amount_eth) ==
    IF w \notin DOMAIN s.borrowed_eth \/ s.borrowed_eth[w] = 0 THEN Raise(s, "ValueError")
    ELSE IF amount_eth > s.borrowed_eth[w] THEN Raise(s, "ValueError")
    ELSE withdraw_eth([s EXCEPT !.total_borrowed_eth = @ - amount_eth], w, amount_eth)

\* a mistaken repayment: the amount is not compared with what the wallet owes
repay_eth_any_amount(s, w, amount_eth) ==
    IF w \notin DOMAIN s.borrowed_eth \/ s.borrowed_eth[w] = 0 THEN Raise(s, "ValueError")
    ELSE withdraw_eth([s EXCEPT !.total_borrowed_eth = @ - amount_eth,
                                !.borrowed_eth[w] = @ - amount_eth], w, amount_eth)

repay_eth(s, w, amount_eth) ==
    IF w \notin DOMAIN s.borrowed_eth \/ s.borrowed_eth[w] = 0 THEN Raise(s, "ValueError")
    ELSE IF amount_eth > s.borrowed_eth[w] THEN Raise(s, "ValueError")
    ELSE LET s1 == [s EXCEPT !.total_borrowed_eth = @ - amount_eth,
                             !.borrowed_eth[w] = @ - amount_eth]
             r2 == withdraw_eth(s1, w, amount_eth)
         IN  IF Failed(r2) THEN r2 ELSE Ok(add_action(r2.s, "repaid ETH"))

\* a mistaken borrow: the total of the token grows, the entry of the wallet does not
borrow_token_total_only(s, w, token, amount_token) ==
    IF amount_token <= 0 THEN Raise(s, "ValueError")
    ELSE IF token \notin Tokens THEN Raise(s, "ValueError")
    ELSE LET s1 == [s EXCEPT !.total_borrowed_token =
                                 Put(@, token, Get(@, token, 0) + amount_token)]
             r2 == deposit_token(s1, w, token, amount_token)
         IN  IF Failed(r2) THEN r2 ELSE Ok(add_action(r2.s, "borrowed token"))

borrow_token(s, w, token, amount_token) ==
    IF amount_token <= 0 THEN Raise(s, "ValueError")
    ELSE IF token \notin Tokens THEN Raise(s, "ValueError")
    ELSE LET held == Get(s.borrowed_token, w, EmptyDict)
             s1 == [s EXCEPT !.borrowed_token =
                                 Put(@, w, Put(held, token, Get(held, token, 0) + amount_token)),
                             !.total_borrowed_token =
                                 Put(@, token, Get(@, token, 0) + amount_token)]
             r2 == deposit_token(s1, w, token, amount_token)
         IN  IF Failed(r2) THEN r2 ELSE Ok(add_action(r2.s, "borrowed token"))

repay_token(s, w, token, amount_token) ==
    IF amount_token <= 0 THEN Raise(s, "ValueError")
    ELSE IF w \notin DOMAIN s.borrowed_token \/ token \notin DOMAIN s.borrowed_token[w]
    THEN Raise(s, "ValueError")
    ELSE IF amount_token > s.borrowed_token[w][token] THEN Raise(s, "ValueError")
    ELSE LET left == s.borrowed_token[w][token] - amount_token
             s1 == [s EXCEPT !.borrowed_token[w] =
                                 IF left = 0 THEN Del(@, token) ELSE Put(@, token, left),
                             !.total_borrowed_token[token] = @ - amount_token]
             r2 == withdraw_token(s1, w, token, amount_token)
         IN  IF Failed(r2) THEN r2 ELSE Ok(add_action(r2.s, "repaid token"))

(***************************************************************************)
(* AMM (simulator/amm.py).  The pool of the LST is a UniswapV2AMM, the     *)
(* pools of CT and DS are YieldSpaceAMMs with discount rate                *)
(* 1 / psm_expiry_at_block.  A power of a negative float is a complex      *)
(* number in Python: "complex" marks it, and the first comparison of it    *)
(* with a number raises TypeError.                                         *)
(***************************************************************************)
IsYieldSpace(p) == p \in {CT, DS}

\* x ** (1 / PsmExpiryAfterBlock) of a fixed-point x >= 0
RootFx(x) == IRoot(MulDiv(x, IPow(SCALE, PsmExpiryAfterBlock - 1), 1), PsmExpiryAfterBlock)
\* reserve ** (1 - discount_rate)
PowBelow(x) == IF x = 0 THEN 0 ELSE Div(x, RootFx(x))
\* reserve ** (1 + discount_rate)
PowAbove(x) == Mul(x, RootFx(x))

UniswapV2_calculate_swap_out_amount(amount_in, reserve_in, reserve_out) ==
    LET denominator == reserve_in + amount_in
    IN  IF denominator = 0 THEN [err |-> "ZeroDivisionError", ret |-> 0]
        ELSE [err |-> "ok", ret |-> MulDiv(amount_in, reserve_out, denominator)]

YieldSpace_calculate_swap_out_amount(amount_in, reserve_in, reserve_out) ==
    LET swap_out(adjusted_reserve_in, adjusted_reserve_out) ==
            IF adjusted_reserve_in + amount_in = 0
            THEN [err |-> "ZeroDivisionError", ret |-> 0]
            ELSE [err |-> "ok",
                  ret |-> adjusted_reserve_out
                          - MulDiv(adjusted_reserve_in, adjusted_reserve_out,
                                   adjusted_reserve_in + amount_in)]
    IN  IF reserve_in < 0 \/ reserve_out < 0 THEN [err |-> "complex", ret |-> 0]
        ELSE swap_out(PowBelow(reserve_in), PowAbove(reserve_out))

calculate_swap_out_amount(p, amount_in, reserve_in, reserve_out) ==
    IF IsYieldSpace(p)
    THEN YieldSpace_calculate_swap_out_amount(amount_in, reserve_in, reserve_out)
    ELSE UniswapV2_calculate_swap_out_amount(amount_in, reserve_in, reserve_out)

Infinity == Huge

YieldSpace_price(adjusted_price) ==
    IF adjusted_price <= 0 THEN [err |-> "ValueError", ret |-> 0]
    ELSE [err |-> "ok", ret |-> adjusted_price]

price_of_one_token_in_eth(s, p) ==
    IF IsYieldSpace(p)
    THEN IF s.pools[p].reserve_eth = 0 \/ s.pools[p].reserve_token = 0
         THEN [err |-> "ValueError", ret |-> 0]
         ELSE YieldSpace_price(MulDiv(Div(s.pools[p].reserve_eth, s.pools[p].reserve_token),
                                      PsmExpiryAfterBlock - 1, PsmExpiryAfterBlock))
    ELSE IF s.pools[p].reserve_token = 0 THEN [err |-> "ok", ret |-> Infinity]
         ELSE [err |-> "ok", ret |-> Div(s.pools[p].reserve_eth, s.pools[p].reserve_token)]

calculate_lpt_mint(s, p, amount_eth, amount_token) ==
    LET first_mint(product) ==
            IF product < 0 THEN [err |-> "complex", ret |-> 0]
            ELSE [err |-> "ok", ret |-> IRoot(product, 2)]
    IN  IF s.pools[p].total_lpt_supply = 0
        THEN first_mint(MulDiv(amount_eth, amount_token, 1))
        ELSE IF s.pools[p].reserve_eth = 0 \/ s.pools[p].reserve_token = 0
             THEN [err |-> "ZeroDivisionError", ret |-> 0]
             ELSE [err |-> "ok",
                   ret |-> Min(Mul(Div(amount_eth, s.pools[p].reserve_eth),
                                   s.pools[p].total_lpt_supply),
                               Mul(Div(amount_token, s.pools[p].reserve_token),
                                   s.pools[p].total_lpt_supply))]

add_liquidity(s, p, w, amount_eth, amount_token) ==
    LET minted(mint, r3) ==
            IF Failed(r3) THEN r3
            ELSE Ok([r3.s EXCEPT !.pools[p].total_lpt_supply = @ + mint.ret,
                                 !.pools[p].lpt_holders = Put(@, w, Get(@, w, 0) + mint.ret),
                                 !.pools[p].reserve_eth = @ + amount_eth,
                                 !.pools[p].reserve_token = @ + amount_token])
        mint_for(r2, mint) ==
            IF mint.err = "ZeroDivisionError" THEN Raise(r2.s, "ZeroDivisionError")
            ELSE IF mint.err = "complex" THEN Raise(r2.s, "TypeError")
            ELSE minted(mint, deposit_lpt(r2.s, w, p, mint.ret))
        taken_token(r2) ==
            IF Failed(r2) THEN r2
            ELSE mint_for(r2, calculate_lpt_mint(r2.s, p, amount_eth, amount_token))
        taken_eth(r1) ==
            IF Failed(r1) THEN r1 ELSE taken_token(withdraw_token(r1.s, w, p, amount_token))
    IN  taken_eth(withdraw_eth(s, w, amount_eth))

\* returns <<share_token, share_eth>>
remove_liquidity(s, p, w, lpt_amount) ==
    LET burnt(share_eth, share_token, r4) ==
            IF Failed(r4) THEN r4
            ELSE IF w \notin DOMAIN s.pools[p].lpt_holders THEN Raise(r4.s, "KeyError")
            ELSE Ret([r4.s EXCEPT !.pools[p].lpt_holders[w] = @ - lpt_amount],
                     << share_token, share_eth >>)
        paid_token(share_eth, share_token, r3) ==
            IF Failed(r3) THEN r3
            ELSE burnt(share_eth, share_token, withdraw_lpt(r3.s, w, p, lpt_amount))
        paid_eth(share_eth, share_token, r2) ==
            IF Failed(r2) THEN r2
            ELSE paid_token(share_eth, share_token, deposit_token(r2.s, w, p, share_token))
        shares(share_eth, share_token) ==
            paid_eth(share_eth, share_token,
                     deposit_eth([s EXCEPT !.pools[p].reserve_eth = @ - share_eth,
                                           !.pools[p].reserve_token = @ - share_token,
                                           !.pools[p].total_lpt_supply = @ - lpt_amount],
                                 w, share_eth))
    IN  IF s.pools[p].total_lpt_supply = 0 THEN Raise(s, "ZeroDivisionError")
        ELSE shares(Mul(Div(lpt_amount, s.pools[p].total_lpt_supply), s.pools[p].reserve_eth),
                    Mul(Div(lpt_amount, s.pools[p].total_lpt_supply), s.pools[p].reserve_token))

swap_eth_for_token(s, p, w, amount_eth) ==
    LET paid(out, r2) ==
            IF Failed(r2) THEN r2
            ELSE Ret([r2.s EXCEPT !.pools[p].reserve_eth = @ + amount_eth,
                                  !.pools[p].reserve_token = @ - out.ret,
                                  !.pools[p].fee_accumulated_eth =
                                      Put(@, s.current_block,
                                          Get(@, s.current_block, 0)
                                              + Frac(amount_eth, s.pools[p].fee))],
                     out.ret)
        taken(out, r1) ==
            IF out.err = "ZeroDivisionError" THEN Raise(s, "ZeroDivisionError")
            ELSE IF Failed(r1) THEN r1
            ELSE IF out.err = "complex" THEN Raise(r1.s, "TypeError")
            ELSE paid(out, deposit_token(r1.s, w, p, out.ret))
    IN  taken(calculate_swap_out_amount(p, Frac(amount_eth, PerMille - s.pools[p].fee),
                                        s.pools[p].reserve_eth, s.pools[p].reserve_token),
              withdraw_eth(s, w, amount_eth))

swap_token_for_eth(s, p, w, amount_token) ==
    LET paid(out, r2) ==
            IF Failed(r2) THEN r2
            ELSE Ret([r2.s EXCEPT !.pools[p].reserve_token = @ + amount_token,
                                  !.pools[p].reserve_eth = @ - out.ret,
                                  !.pools[p].fee_accumulated_token =
                                      Put(@, s.current_block,
                                          Get(@, s.current_block, 0)
                                              + Frac(amount_token, s.pools[p].fee))],
                     out.ret)
        taken(out, r1) ==
            IF out.err = "ZeroDivisionError" THEN Raise(s, "ZeroDivisionError")
            ELSE IF Failed(r1) THEN r1
            ELSE IF out.err = "complex" THEN Raise(r1.s, "TypeError")
            ELSE paid(out, deposit_eth(r1.s, w, out.ret))
    IN  taken(calculate_swap_out_amount(p, Frac(amount_token, PerMille - s.pools[p].fee),
                                        s.pools[p].reserve_token, s.pools[p].reserve_eth),
              withdraw_token(s, w, p, amount_token))

\* (amount_out_expected - amount_out_actual) / amount_out_expected, in parts of SCALE
slippage_of(reserve_in, amount_out_expected, actual) ==
    IF reserve_in = 0 THEN [err |-> "ZeroDivisionError", ret |-> 0]
    ELSE IF actual.err = "ZeroDivisionError" THEN [err |-> "ZeroDivisionError", ret |-> 0]
    ELSE IF amount_out_expected = 0 THEN [err |-> "ZeroDivisionError", ret |-> 0]
    ELSE IF actual.err = "complex" THEN [err |-> "complex", ret |-> 0]
    ELSE [err |-> "ok", ret |-> Div(amount_out_expected - actual.ret, amount_out_expected)]

slippage_between(p, fee, amount_in, reserve_in, reserve_out) ==
    slippage_of(reserve_in,
                Mul(Frac(amount_in, PerMille - fee), Div(reserve_out, reserve_in)),
                calculate_swap_out_amount(p, Frac(amount_in, PerMille - fee),
                                          reserve_in, reserve_out))

calculate_slippage(s, p, amount_in, swap_direction) ==
    slippage_between(p, s.pools[p].fee, amount_in,
                     IF swap_direction = "eth_to_token" THEN s.pools[p].reserve_eth
                     ELSE s.pools[p].reserve_token,
                     IF swap_direction = "eth_to_token" THEN s.pools[p].reserve_token
                     ELSE s.pools[p].reserve_eth)

(***************************************************************************)
(* PegStabilityModule (simulator/psm.py)                                   *)
(***************************************************************************)
psm_deposit_eth(s, w, amount_eth) ==
    LET r1 == withdraw_eth(s, w, amount_eth)
        r2 == deposit_token(r1.s, w, CT, amount_eth)
        r3 == deposit_token(r2.s, w, DS, amount_eth)
        s4 == [r3.s EXCEPT !.psm.eth_reserve = @ + amount_eth]
    IN  IF amount_eth <= 0 THEN Raise(s, "ValueError")
        ELSE IF Failed(r1) THEN r1
        ELSE Ok(s4)

\* a mistaken payout: the PSM gives up the whole amount, the fee is not retained
psm_pay_out_without_fee_retained(s_taken, w, amount_tokens) ==
    LET fee_eth == Frac(amount_tokens, RedemptionFee)
        net_eth == amount_tokens - fee_eth
        r1 == deposit_eth(s_taken, w, net_eth)
        s2 == [r1.s EXCEPT !.psm.eth_reserve = @ - amount_tokens,
                           !.psm.token_reserve = @ + amount_tokens,
                           !.psm.total_redemption_fee = @ + fee_eth]
    IN  IF net_eth > s_taken.psm.eth_reserve THEN Raise(s_taken, "ValueError")
        ELSE Ret(s2, net_eth)

\* the accounting the three redeems share, once the tokens have been taken
psm_pay_out(s_taken, w, amount_tokens) ==
    LET fee_eth == Frac(amount_tokens, RedemptionFee)
        net_eth == amount_tokens - fee_eth
        r1 == deposit_eth(s_taken, w, net_eth)
        s2 == [r1.s EXCEPT !.psm.eth_reserve = @ - net_eth,
                           !.psm.token_reserve = @ + amount_tokens,
                           !.psm.total_redemption_fee = @ + fee_eth]
    IN  IF net_eth > s_taken.psm.eth_reserve THEN Raise(s_taken, "ValueError")
        ELSE Ret(s2, net_eth)

\* a mistaken phase test: the block of the expiry is already refused
redeem_with_ct_and_ds_before_expiry_only(s, w, amount_tokens, block) ==
    IF block >= PsmExpiryAfterBlock THEN Raise(s, "ValueError")
    ELSE IF amount_tokens <= 0 THEN Raise(s, "ValueError")
    ELSE IF token_balance(s, w, CT) < amount_tokens \/ token_balance(s, w, DS) < amount_tokens
    THEN Raise(s, "ValueError")
    ELSE psm_pay_out(withdraw_token(withdraw_token(s, w, CT, amount_tokens).s,
                                    w, DS, amount_tokens).s, w, amount_tokens)

redeem_with_ct_and_ds(s, w, amount_tokens, block) ==
    LET r1 == withdraw_token(s, w, CT, amount_tokens)
        r2 == withdraw_token(r1.s, w, DS, amount_tokens)
    IN  IF block > PsmExpiryAfterBlock THEN Raise(s, "ValueError")
        ELSE IF amount_tokens <= 0 THEN Raise(s, "ValueError")
        ELSE IF token_balance(s, w, CT) < amount_tokens \/ token_balance(s, w, DS) < amount_tokens
        THEN Raise(s, "ValueError")
        ELSE psm_pay_out(r2.s, w, amount_tokens)

redeem_with_token_and_ds(s, w, amount_tokens, block) ==
    LET r1 == withdraw_token(s, w, LST, amount_tokens)
        r2 == withdraw_token(r1.s, w, DS, amount_tokens)
    IN  IF block > PsmExpiryAfterBlock THEN Raise(s, "ValueError")
        ELSE IF amount_tokens <= 0 THEN Raise(s, "ValueError")
        ELSE IF token_balance(s, w, LST) < amount_tokens \/ token_balance(s, w, DS) < amount_tokens
        THEN Raise(s, "ValueError")
        ELSE psm_pay_out(r2.s, w, amount_tokens)

redeem_with_ct_post_expiry(s, w, amount_tokens, block) ==
    LET r1 == withdraw_token(s, w, CT, amount_tokens)
    IN  IF block < PsmExpiryAfterBlock THEN Raise(s, "ValueError")
        ELSE IF amount_tokens <= 0 THEN Raise(s, "ValueError")
        ELSE IF token_balance(s, w, CT) < amount_tokens THEN Raise(s, "ValueError")
        ELSE psm_pay_out(r1.s, w, amount_tokens)

repurchase_token_and_ds(s, w, amount_eth) ==
    LET fee_eth == Frac(amount_eth, RepurchaseFee)
        net_eth == amount_eth - fee_eth
        amount_tokens == net_eth
        r1 == withdraw_eth(s, w, amount_eth)
        s2 == [r1.s EXCEPT !.psm.eth_reserve = @ + amount_eth,
                           !.psm.token_reserve = @ - amount_tokens]
        r3 == deposit_token(s2, w, LST, amount_tokens)
        r4 == deposit_token(r3.s, w, DS, amount_tokens)
        s5 == [r4.s EXCEPT !.psm.total_repurchase_fee = @ + fee_eth]
    IN  IF amount_eth <= 0 THEN Raise(s, "ValueError")
        ELSE IF amount_tokens > s.psm.token_reserve THEN Raise(s, "ValueError")
        ELSE IF Failed(r1) THEN r1
        ELSE IF Failed(r3) THEN r3
        ELSE Ret(s5, amount_tokens)

(***************************************************************************)
(* Vault (simulator/vault.py): LP deposit and withdrawal                   *)
(***************************************************************************)
Threshold == SCALE \div 100

get_total_vault_value(s) ==
    LET valued(ds_price) ==
            IF ds_price.err # "ok" THEN [err |-> ds_price.err, ret |-> 0]
            ELSE IF s.pools[CT].total_lpt_supply = 0
            THEN [err |-> "ZeroDivisionError", ret |-> 0]
            ELSE [err |-> "ok",
                  ret |-> s.eth_balance[VaultWallet]
                          + Mul(ds_price.ret, token_balance(s, VaultWallet, DS))
                          + Mul(Div(s.pools[CT].reserve_eth, s.pools[CT].total_lpt_supply),
                                lpt_balance(s, VaultWallet, LST))]
    IN  valued(price_of_one_token_in_eth(s, DS))

\* a mistaken conversion: one pass, and the DS minted is kept
recursive_conversion_keeping_ds(s, amount_eth, fuel) ==
    LET minted(r2, eth_for_amm, ct_for_amm) ==
            IF Failed(r2) THEN r2
            ELSE add_liquidity(r2.s, CT, VaultWallet, eth_for_amm, ct_for_amm)
        split(r1, eth_for_amm, ct_for_amm) ==
            minted(psm_deposit_eth(r1.s, VaultWallet, ct_for_amm), eth_for_amm, ct_for_amm)
        shared(r1, remainder_eth, share_of_ct_in_the_pool) ==
            split(r1, Mul(remainder_eth, SCALE - share_of_ct_in_the_pool),
                  remainder_eth - Mul(remainder_eth, SCALE - share_of_ct_in_the_pool))
        reserved(r1, reserve_ct) ==
            IF Failed(r1) THEN r1
            ELSE shared(r1, amount_eth - reserve_ct,
                        Div(s.pools[CT].reserve_token,
                            s.pools[CT].reserve_token + s.pools[CT].reserve_eth))
        reserve(reserve_ct) == reserved(psm_deposit_eth(s, VaultWallet, reserve_ct), reserve_ct)
    IN  IF amount_eth < Threshold THEN Ok(s) ELSE reserve(Frac(amount_eth, ReserveCt))

RECURSIVE recursive_conversion(_, _, _)
recursive_conversion(s, amount_eth, fuel) ==
    LET swapped(r4) ==
            IF Failed(r4) THEN r4 ELSE recursive_conversion(r4.s, r4.ret, fuel - 1)
        added(r3, ds_tokens) ==
            IF Failed(r3) THEN r3
            ELSE IF ds_tokens > 0
                 THEN swapped(swap_token_for_eth(r3.s, DS, VaultWallet, ds_tokens))
                 ELSE Ok(r3.s)
        minted(r2, reserve_ct, eth_for_amm, ct_for_amm) ==
            IF Failed(r2) THEN r2
            ELSE added(add_liquidity(r2.s, CT, VaultWallet, eth_for_amm, ct_for_amm),
                       reserve_ct + ct_for_amm)
        split(r1, reserve_ct, eth_for_amm, ct_for_amm) ==
            minted(psm_deposit_eth(r1.s, VaultWallet, ct_for_amm),
                   reserve_ct, eth_for_amm, ct_for_amm)
        shared(r1, reserve_ct, remainder_eth, share_of_ct_in_the_pool) ==
            split(r1, reserve_ct, Mul(remainder_eth, SCALE - share_of_ct_in_the_pool),
                  remainder_eth - Mul(remainder_eth, SCALE - share_of_ct_in_the_pool))
        reserved(r1, reserve_ct) ==
            IF Failed(r1) THEN r1
            ELSE IF s.pools[CT].reserve_token + s.pools[CT].reserve_eth = 0
            THEN Raise(r1.s, "ZeroDivisionError")
            ELSE shared(r1, reserve_ct, amount_eth - reserve_ct,
                        Div(s.pools[CT].reserve_token,
                            s.pools[CT].reserve_token + s.pools[CT].reserve_eth))
        reserve(reserve_ct) == reserved(psm_deposit_eth(s, VaultWallet, reserve_ct), reserve_ct)
    IN  IF amount_eth < Threshold THEN Ok(s)
        ELSE IF fuel = 0 THEN Raise(s, "Hang")
        ELSE reserve(Frac(amount_eth, ReserveCt))

\* a mistaken issue: the supply grows, the holder is not recorded
issue_lp_tokens_supply_only(s, w, amount_eth) ==
    LET mint(lp_tokens_to_mint) ==
            deposit_lpt([s EXCEPT !.lp_token_supply = @ + lp_tokens_to_mint],
                        w, VaultPool, lp_tokens_to_mint)
        valued(total_vault_value) ==
            IF total_vault_value.err # "ok" THEN Raise(s, total_vault_value.err)
            ELSE IF s.lp_token_supply # 0 /\ total_vault_value.ret = 0
            THEN Raise(s, "ZeroDivisionError")
            ELSE mint(IF s.lp_token_supply = 0 THEN amount_eth
                      ELSE Mul(Div(amount_eth, total_vault_value.ret), s.lp_token_supply))
    IN  valued(get_total_vault_value(s))

issue_lp_tokens(s, w, amount_eth) ==
    LET mint(lp_tokens_to_mint) ==
            deposit_lpt([s EXCEPT !.lp_token_supply = @ + lp_tokens_to_mint,
                                  !.lp_holders = Put(@, w, Get(@, w, 0) + lp_tokens_to_mint)],
                        w, VaultPool, lp_tokens_to_mint)
        valued(total_vault_value) ==
            IF total_vault_value.err # "ok" THEN Raise(s, total_vault_value.err)
            ELSE IF s.lp_token_supply # 0 /\ total_vault_value.ret = 0
            THEN Raise(s, "ZeroDivisionError")
            ELSE mint(IF s.lp_token_supply = 0 THEN amount_eth
                      ELSE Mul(Div(amount_eth, total_vault_value.ret), s.lp_token_supply))
    IN  valued(get_total_vault_value(s))

vault_deposit_eth(s, w, amount_eth) ==
    LET converted(r3) == IF Failed(r3) THEN r3 ELSE issue_lp_tokens(r3.s, w, amount_eth)
        received(r2) ==
            IF Failed(r2) THEN r2
            ELSE converted(recursive_conversion(r2.s, amount_eth, LoopFuel))
        taken(r1) == IF Failed(r1) THEN r1 ELSE received(deposit_eth(r1.s, VaultWallet, amount_eth))
    IN  taken(withdraw_eth(s, w, amount_eth))

withdraw_lp_tokens(s, w, amount_lp) ==
    LET returned(r4) ==
            IF Failed(r4) THEN r4
            ELSE withdraw_lpt([r4.s EXCEPT !.lp_token_supply = @ - amount_lp,
                                           !.lp_holders[w] = @ - amount_lp],
                              w, VaultPool, amount_lp)
        taken(r3, total_eth_to_return) ==
            IF Failed(r3) THEN r3 ELSE returned(deposit_eth(r3.s, w, total_eth_to_return))
        summed(r2, total_eth_to_return) ==
            taken(withdraw_eth(r2.s, VaultWallet, total_eth_to_return), total_eth_to_return)
        swapped(r1, r2) == IF Failed(r2) THEN r2 ELSE summed(r2, r2.ret + r1.ret[2])
        removed(r1) ==
            IF Failed(r1) THEN r1
            ELSE swapped(r1, swap_token_for_eth(r1.s, CT, VaultWallet, r1.ret[1]))
        priced(user_share_value_in_eth, ct_to_eth_price_ratio) ==
            IF ct_to_eth_price_ratio.err # "ok" THEN Raise(s, ct_to_eth_price_ratio.err)
            ELSE removed(remove_liquidity(
                     s, CT, VaultWallet,
                     user_share_value_in_eth
                         - Div(user_share_value_in_eth, SCALE + ct_to_eth_price_ratio.ret)))
        valued(total_vault_value) ==
            IF total_vault_value.err # "ok" THEN Raise(s, total_vault_value.err)
            ELSE priced(Mul(Div(amount_lp, s.lp_token_supply), total_vault_value.ret),
                        price_of_one_token_in_eth(s, CT))
    IN  IF amount_lp <= 0 THEN Raise(s, "ValueError")
        ELSE IF amount_lp > Get(s.lp_holders, w, 0) THEN Raise(s, "ValueError")
        ELSE IF s.lp_token_supply = 0 THEN Raise(s, "ZeroDivisionError")
        ELSE valued(get_total_vault_value(s))

(***************************************************************************)
(* Vault (simulator/vault.py): the flash-loan routines buy_ds and sell_ds  *)
(***************************************************************************)
\* x / ((1 - fee) * (1 - slippage))
OverFeeAndSlippage(x, slippage) == Div(Unfrac(x, PerMille - AmmFee), SCALE - slippage)

AtLeastZero(x) == IF x < 0 THEN 0 ELSE x

\* a mistaken guard: only a negative outcome is refused
NotEnoughLiquidity_negative_only(outcome) == outcome < 0

\* the guard of buy_ds and sell_ds on the outcome of the dry run
NotEnoughLiquidity(outcome) == outcome <= 0

calculate_sell_ds_outcome(s, amount_ds_asked) ==
    LET outcome(amount_ds, eth_needed_for_repayment, ct_slippage) ==
            IF ct_slippage.err = "ZeroDivisionError" THEN [err |-> "ZeroDivisionError", ret |-> 0]
            ELSE IF ct_slippage.err = "complex" THEN [err |-> "TypeError", ret |-> 0]
            ELSE IF ct_slippage.ret = SCALE THEN [err |-> "ZeroDivisionError", ret |-> 0]
            ELSE [err |-> "ok",
                  ret |-> AtLeastZero(amount_ds - OverFeeAndSlippage(eth_needed_for_repayment,
                                                                     ct_slippage.ret))]
        repayment(amount_ds, eth_needed_for_repayment) ==
            outcome(amount_ds, eth_needed_for_repayment,
                    calculate_slippage(s, CT, eth_needed_for_repayment, "eth_to_token"))
        limited(ct_eth_price, max_ds_sellable) ==
            repayment(IF amount_ds_asked > max_ds_sellable THEN max_ds_sellable
                      ELSE amount_ds_asked,
                      Mul(IF amount_ds_asked > max_ds_sellable THEN max_ds_sellable
                          ELSE amount_ds_asked,
                          ct_eth_price.ret))
        priced(ct_eth_price, ds_price) ==
            IF ct_eth_price.err # "ok" THEN [err |-> ct_eth_price.err, ret |-> 0]
            ELSE IF ds_price.err # "ok" THEN [err |-> ds_price.err, ret |-> 0]
            ELSE limited(ct_eth_price,
                         Min(amount_ds_asked,
                             Min(s.pools[CT].reserve_token,
                                 Div(s.pools[DS].reserve_eth, ds_price.ret))))
    IN  priced(price_of_one_token_in_eth(s, CT), price_of_one_token_in_eth(s, DS))

calculate_buy_ds_outcome(s, amount_eth) ==
    LET outcome(ds_received, shortfall_eth, ds_to_cover, ds_slippage) ==
            IF ~(shortfall_eth > 0) THEN [err |-> "ok", ret |-> AtLeastZero(ds_received)]
            ELSE IF ds_slippage.err = "ZeroDivisionError"
            THEN [err |-> "ZeroDivisionError", ret |-> 0]
            ELSE IF ds_slippage.err = "complex" THEN [err |-> "TypeError", ret |-> 0]
            ELSE IF ds_slippage.ret = SCALE THEN [err |-> "ZeroDivisionError", ret |-> 0]
            ELSE [err |-> "ok",
                  ret |-> AtLeastZero(ds_received
                                      - OverFeeAndSlippage(ds_to_cover, ds_slippage.ret))]
        covered(ds_received, shortfall_eth, ds_to_cover) ==
            outcome(ds_received, shortfall_eth, ds_to_cover,
                    calculate_slippage(s, DS, ds_to_cover, "token_to_eth"))
        short(ds_price, ds_received, shortfall_eth) ==
            covered(ds_received, shortfall_eth, Div(shortfall_eth, ds_price.ret))
        slipped(ct_eth_price, ds_price, eth_to_borrow, total_eth, ct_slippage) ==
            IF ct_slippage.err = "ZeroDivisionError" THEN [err |-> "ZeroDivisionError", ret |-> 0]
            ELSE IF ct_slippage.err = "complex" THEN [err |-> "TypeError", ret |-> 0]
            ELSE short(ds_price, total_eth,
                       eth_to_borrow
                           - Mul(Frac(Mul(total_eth, ct_eth_price.ret), PerMille - AmmFee),
                                 SCALE - ct_slippage.ret))
        borrowed(ct_eth_price, ds_price, eth_to_borrow) ==
            slipped(ct_eth_price, ds_price, eth_to_borrow, amount_eth + eth_to_borrow,
                    calculate_slippage(s, CT, amount_eth + eth_to_borrow, "token_to_eth"))
        priced(ct_eth_price, ds_price) ==
            IF ct_eth_price.err # "ok" THEN [err |-> ct_eth_price.err, ret |-> 0]
            ELSE IF ds_price.err # "ok" THEN [err |-> ds_price.err, ret |-> 0]
            ELSE borrowed(ct_eth_price, ds_price,
                          Mul(Div(amount_eth, ds_price.ret), ct_eth_price.ret))
    IN  priced(price_of_one_token_in_eth(s, CT), price_of_one_token_in_eth(s, DS))

\* the loop of buy_ds that sells more DS until the loan is covered; returns ds_to_sell
RECURSIVE buy_ds_loop(_, _, _, _, _)
buy_ds_loop(s, eth_to_borrow, eth_accumulated_for_repay, ds_to_sell, fuel) ==
    LET sold(more_ds_to_sell, r) ==
            IF Failed(r) THEN r
            ELSE buy_ds_loop(r.s, eth_to_borrow, eth_accumulated_for_repay + r.ret,
                             ds_to_sell + more_ds_to_sell, fuel - 1)
        more(more_ds_to_sell) ==
            sold(more_ds_to_sell, swap_token_for_eth(s, DS, VaultWallet, more_ds_to_sell))
        priced(new_ds_price) ==
            IF new_ds_price.err # "ok" THEN Raise(s, new_ds_price.err)
            ELSE more(Unfrac(Div(eth_to_borrow - eth_accumulated_for_repay, new_ds_price.ret),
                             PerMille + AmmFee))
    IN  IF ~(eth_accumulated_for_repay < eth_to_borrow) THEN Ret(s, ds_to_sell)
        ELSE IF fuel = 0 THEN Raise(s, "Hang")
        ELSE priced(price_of_one_token_in_eth(s, DS))

buy_ds(s, w, amount_eth_asked) ==
    LET withdrawn(remaining_ds, r9) ==
            IF Failed(r9) THEN r9 ELSE deposit_token(r9.s, w, DS, remaining_ds)
        limited(r8, remaining_ds) ==
            IF ~(remaining_ds > 0) THEN Raise(r8.s, "AssertionError")
            ELSE withdrawn(remaining_ds, withdraw_token(r8.s, VaultWallet, DS, remaining_ds))
        repaid(r8, ds_left) ==
            IF Failed(r8) THEN r8
            ELSE limited(r8, Min(ds_left, r8.s.token_balances[VaultWallet][DS]))
        looped(ds_received, eth_to_borrow, r7) ==
            IF Failed(r7) THEN r7
            ELSE repaid(repay_eth(r7.s, VaultWallet, eth_to_borrow), ds_received - r7.ret)
        sold(ds_received, eth_to_borrow, eth_from_ct, ds_to_sell, r6) ==
            IF Failed(r6) THEN r6
            ELSE looped(ds_received, eth_to_borrow,
                        buy_ds_loop(r6.s, eth_to_borrow, eth_from_ct + r6.ret, ds_to_sell,
                                    LoopFuel))
        selling(ds_received, eth_to_borrow, r5, ds_to_sell) ==
            sold(ds_received, eth_to_borrow, r5.ret, ds_to_sell,
                 swap_token_for_eth(r5.s, DS, VaultWallet, ds_to_sell))
        swapped(ds_price, ds_received, eth_to_borrow, r5) ==
            IF Failed(r5) THEN r5
            ELSE selling(ds_received, eth_to_borrow, r5,
                         Min(Unfrac(Div(AtLeastZero(eth_to_borrow - r5.ret), ds_price),
                                    PerMille - AmmFee),
                             r5.s.token_balances[VaultWallet][DS]))
        minted(ds_price, total_eth, eth_to_borrow, r4, slippage) ==
            IF Failed(r4) THEN r4
            ELSE IF slippage.err = "ZeroDivisionError" THEN Raise(r4.s, "ZeroDivisionError")
            ELSE swapped(ds_price, total_eth, eth_to_borrow,
                         swap_token_for_eth(r4.s, CT, VaultWallet, total_eth))
        deposited(ds_price, total_eth, eth_to_borrow, r4) ==
            minted(ds_price, total_eth, eth_to_borrow, r4,
                   calculate_slippage(r4.s, CT, total_eth, "token_to_eth"))
        lent(ds_price, amount_eth, eth_to_borrow, r3) ==
            IF Failed(r3) THEN r3
            ELSE deposited(ds_price, amount_eth + eth_to_borrow, eth_to_borrow,
                           psm_deposit_eth(r3.s, VaultWallet, amount_eth + eth_to_borrow))
        received(ds_price, amount_eth, eth_to_borrow, r2) ==
            IF Failed(r2) THEN r2
            ELSE lent(ds_price, amount_eth, eth_to_borrow,
                      borrow_eth(r2.s, VaultWallet, eth_to_borrow))
        taken(ct_eth_price, ds_price, amount_eth, r1) ==
            IF Failed(r1) THEN r1
            ELSE received(ds_price, amount_eth, Mul(Div(amount_eth, ds_price), ct_eth_price),
                          deposit_eth(r1.s, VaultWallet, amount_eth))
        capped(ct_eth_price, ds_price, amount_eth) ==
            taken(ct_eth_price, ds_price, amount_eth, withdraw_eth(s, w, amount_eth))
        priced(ct_eth_price, ds_price) ==
            capped(ct_eth_price, ds_price,
                   Min(amount_eth_asked, Mul(s.pools[DS].reserve_token, ds_price)))
        checked(dry) ==
            IF dry.err # "ok" THEN Raise(s, dry.err)
            ELSE IF NotEnoughLiquidity(dry.ret) THEN Raise(s, "ValueError")
            ELSE priced(price_of_one_token_in_eth(s, CT).ret,
                        price_of_one_token_in_eth(s, DS).ret)
    IN  checked(calculate_buy_ds_outcome(s, amount_eth_asked))

\* the loop of sell_ds that swaps more ETH until the CT loan is covered;
\* returns remaining_eth_to_return
RECURSIVE sell_ds_loop(_, _, _, _, _)
sell_ds_loop(s, ct_to_borrow, ct_from_eth, remaining_eth_to_return, fuel) ==
    LET bought(eth_to_swap_for_ct, r) ==
            IF Failed(r) THEN r
            ELSE sell_ds_loop(r.s, ct_to_borrow, ct_from_eth + r.ret,
                              remaining_eth_to_return - eth_to_swap_for_ct, fuel - 1)
        more(eth_to_swap_for_ct) ==
            bought(eth_to_swap_for_ct,
                   swap_eth_for_token(s, CT, VaultWallet, eth_to_swap_for_ct))
        priced(new_ct_eth_price) ==
            IF new_ct_eth_price.err # "ok" THEN Raise(s, new_ct_eth_price.err)
            ELSE more(Frac(Div(ct_to_borrow - ct_from_eth, new_ct_eth_price.ret),
                           PerMille + AmmFee))
    IN  IF ~(ct_from_eth < ct_to_borrow) THEN Ret(s, remaining_eth_to_return)
        ELSE IF fuel = 0 THEN Raise(s, "Hang")
        ELSE priced(price_of_one_token_in_eth(s, CT))

sell_ds(s, w, amount_ds_asked) ==
    LET paid(remaining_eth_to_return, r8) ==
            IF Failed(r8) THEN r8
            ELSE IF remaining_eth_to_return > 0
            THEN deposit_eth(r8.s, w, remaining_eth_to_return)
            ELSE Ok(r8.s)
        repaid(remaining_eth_to_return, r7) ==
            IF Failed(r7) THEN r7
            ELSE paid(remaining_eth_to_return,
                      withdraw_eth(r7.s, VaultWallet, remaining_eth_to_return))
        looped(ct_to_borrow, r6) ==
            IF Failed(r6) THEN r6
            ELSE repaid(r6.ret, repay_token(r6.s, VaultWallet, CT, ct_to_borrow))
        swapped(ct_to_borrow, eth_from_ds, eth_to_swap_for_ct, r5) ==
            IF Failed(r5) THEN r5
            ELSE looped(ct_to_borrow,
                        sell_ds_loop(r5.s, ct_to_borrow, r5.ret,
                                     eth_from_ds - eth_to_swap_for_ct, LoopFuel))
        swapping(ct_to_borrow, r4, eth_to_swap_for_ct) ==
            swapped(ct_to_borrow, r4.ret, eth_to_swap_for_ct,
                    swap_eth_for_token(r4.s, CT, VaultWallet, eth_to_swap_for_ct))
        redeemed(ct_eth_price, ct_to_borrow, r4) ==
            IF Failed(r4) THEN r4
            ELSE swapping(ct_to_borrow, r4,
                          Unfrac(Mul(r4.ret, ct_eth_price), PerMille - AmmFee))
        lent(ct_eth_price, ct_to_borrow, r3) ==
            IF Failed(r3) THEN r3
            ELSE redeemed(ct_eth_price, ct_to_borrow,
                          redeem_with_ct_and_ds(r3.s, VaultWallet, ct_to_borrow,
                                                r3.s.current_block))
        received(ct_eth_price, amount_ds, r2) ==
            IF Failed(r2) THEN r2
            ELSE lent(ct_eth_price, amount_ds, borrow_token(r2.s, VaultWallet, CT, amount_ds))
        taken(ct_eth_price, amount_ds, r1) ==
            IF Failed(r1) THEN r1
            ELSE received(ct_eth_price, amount_ds,
                          deposit_token(r1.s, VaultWallet, DS, amount_ds))
        capped(ct_eth_price, amount_ds) ==
            taken(ct_eth_price, amount_ds, withdraw_token(s, w, DS, amount_ds))
        priced(ct_eth_price, ds_price) ==
            capped(ct_eth_price,
                   IF amount_ds_asked > s.pools[CT].reserve_token
                      \/ Mul(amount_ds_asked, ds_price) > s.pools[DS].reserve_eth
                   THEN Min(s.pools[CT].reserve_token, Div(s.pools[DS].reserve_eth, ds_price))
                   ELSE amount_ds_asked)
        checked(dry) ==
            IF dry.err # "ok" THEN Raise(s, dry.err)
            ELSE IF NotEnoughLiquidity(dry.ret) THEN Raise(s, "ValueError")
            ELSE priced(price_of_one_token_in_eth(s, CT).ret,
                        price_of_one_token_in_eth(s, DS).ret)
    IN  checked(calculate_sell_ds_outcome(s, amount_ds_asked))

(***************************************************************************)
(* EventManager (simulator/event_manager.py)                               *)
(***************************************************************************)
\* the schedule of the run: percentages in parts per thousand
Events ==
    << [block |-> 1, type |-> "yield_adjustment", token |-> LST, percentage |-> 50],
       [block |-> 2, type |-> "depeg", token |-> LST, percentage |-> 100],
       [block |-> 2, type |-> "eth_yield_adjustment", token |-> LST, percentage |-> 10],
       [block |-> 3, type |-> "repeg", token |-> LST, percentage |-> 0] >>

\* math.sqrt of a fixed-point number
FxSqrt(v) == IRoot(MulDiv(v, SCALE, 1), 2)

\* the numbers whose root FxSqrt computes without reaching Huge
Rootable(v) == v < Huge \div SCALE

\* a state beyond the amounts of the runs followed
Beyond(s, token) == [s EXCEPT !.pools[token].reserve_token = Huge]

\* a mistaken depeg: the reserves are written, no swap is made
depeg_writing_reserves(s, token, percentage) ==
    LET written(k, target_price) ==
            IF target_price <= 0 THEN Raise(s, "ValueError")
            ELSE Ok(add_action([s EXCEPT !.pools[token].reserve_eth =
                                             FxSqrt(Mul(k, target_price)),
                                         !.pools[token].reserve_token =
                                             FxSqrt(Div(k, target_price))],
                               "Depegged downwards"))
    IN  written(Mul(s.pools[token].reserve_eth, s.pools[token].reserve_token),
                Frac(price_of_one_token_in_eth(s, token).ret, PerMille - percentage))

\* the swap that moves the reserves to (x_new, y_new), from the manager's own wallet
depeg(s, token, percentage) ==
    LET logged(action, swapped, final_price) ==
            IF final_price.err # "ok" THEN Raise(swapped.s, final_price.err)
            ELSE Ok(add_action(swapped.s, action))
        swapped_to(action, swapped) ==
            IF Failed(swapped) THEN swapped
            ELSE logged(action, swapped, price_of_one_token_in_eth(swapped.s, token))
        funded_token(delta_y, r1) ==
            swapped_to("Depegged downwards",
                       swap_token_for_eth(r1.s, token, EventWallet, delta_y))
        funded_eth(delta_x, r3) ==
            swapped_to("Depegged upwards", swap_eth_for_token(r3.s, token, EventWallet, delta_x))
        moved(delta_x, delta_y) ==
            IF delta_y > 0 THEN funded_token(delta_y, deposit_token(s, EventWallet, token, delta_y))
            ELSE IF delta_x > 0 THEN funded_eth(delta_x, deposit_eth(s, EventWallet, delta_x))
            ELSE Ok(s)
        targets(k, target_price) ==
            IF Mul(k, target_price) < 0 THEN Raise(s, "ValueError")
            ELSE IF target_price = 0 THEN Raise(s, "ZeroDivisionError")
            ELSE IF Div(k, target_price) < 0 THEN Raise(s, "ValueError")
            ELSE IF ~Rootable(Mul(k, target_price)) \/ ~Rootable(Div(k, target_price))
            THEN Ok(Beyond(s, token))
            ELSE moved(FxSqrt(Mul(k, target_price)) - s.pools[token].reserve_eth,
                       FxSqrt(Div(k, target_price)) - s.pools[token].reserve_token)
        priced(current_price) ==
            IF current_price.err # "ok" THEN Raise(s, current_price.err)
            ELSE IF current_price.ret = Infinity THEN Ok(s)
            ELSE targets(Mul(s.pools[token].reserve_eth, s.pools[token].reserve_token),
                         Frac(current_price.ret, PerMille - percentage))
    IN  priced(price_of_one_token_in_eth(s, token))

repeg(s, token) ==
    LET logged(action, swapped, final_price) ==
            IF final_price.err # "ok" THEN Raise(swapped.s, final_price.err)
            ELSE Ok(add_action(swapped.s, action))
        swapped_to(action, swapped) ==
            IF Failed(swapped) THEN swapped
            ELSE logged(action, swapped, price_of_one_token_in_eth(swapped.s, token))
        funded_eth(delta_x, r1) ==
            swapped_to("Repegged by adding ETH",
                       swap_eth_for_token(r1.s, token, EventWallet, delta_x))
        funded_token(amount, r3) ==
            swapped_to("Repegged by removing tokens",
                       swap_token_for_eth(r3.s, token, EventWallet, amount))
        moved(delta_x, delta_y) ==
            IF delta_x > 0 THEN funded_eth(delta_x, deposit_eth(s, EventWallet, delta_x))
            ELSE IF delta_y < 0
            THEN funded_token(Abs(delta_y), deposit_token(s, EventWallet, token, Abs(delta_y)))
            ELSE Ok(s)
        rooted(k) ==
            IF k < 0 THEN Raise(s, "ValueError")
            ELSE IF ~Rootable(k) THEN Ok(Beyond(s, token))
            ELSE moved(FxSqrt(k) - s.pools[token].reserve_eth,
                       FxSqrt(k) - s.pools[token].reserve_token)
        priced(current_price) ==
            IF current_price.err # "ok" THEN Raise(s, current_price.err)
            ELSE IF current_price.ret = SCALE THEN Ok(s)
            ELSE rooted(Mul(s.pools[token].reserve_eth, s.pools[token].reserve_token))
    IN  priced(price_of_one_token_in_eth(s, token))

adjust_yield(s, token, percentage) ==
    Ok(add_action([s EXCEPT !.yield_per_block = Put(@, token, percentage)], "Adjusted yield"))

adjust_eth_yield(s, token, percentage) ==
    Ok(add_action([s EXCEPT !.eth_yield = percentage], "Adjusted ETH yield"))

apply_event(s, event) ==
    IF event.token \notin Tokens THEN Ok(s)
    ELSE IF event.type = "depeg" THEN depeg(s, event.token, event.percentage)
    ELSE IF event.type = "repeg" THEN repeg(s, event.token)
    ELSE IF event.type = "yield_adjustment" THEN adjust_yield(s, event.token, event.percentage)
    ELSE IF event.type = "eth_yield_adjustment"
    THEN adjust_eth_yield(s, event.token, event.percentage)
    ELSE Ok(s)

\* a mistaken loop: the block of an event is not looked at
RECURSIVE on_block_from_every_block(_, _, _)
on_block_from_every_block(s, block_number, i) ==
    IF i > Len(Events) THEN Ok(s)
    ELSE LET applied(r) ==
                 IF Failed(r) THEN r ELSE on_block_from_every_block(r.s, block_number, i + 1)
         IN  applied(apply_event(s, Events[i]))

\* the events of the schedule from position i on whose block is block_number, in order
RECURSIVE on_block_from(_, _, _)
on_block_from(s, block_number, i) ==
    IF i > Len(Events) THEN Ok(s)
    ELSE IF Events[i].block # block_number THEN on_block_from(s, block_number, i + 1)
    ELSE LET applied(r) == IF Failed(r) THEN r ELSE on_block_from(r.s, block_number, i + 1)
         IN  applied(apply_event(s, Events[i]))

on_block(s, block_number) == on_block_from(s, block_number, 1)

(***************************************************************************)
(* Blockchain (simulator/blockchain.py): yield, the end-of-block check,    *)
(* the stats snapshot                                                      *)
(***************************************************************************)
NoAgent == "nobody"

\* Wallet.all_wallets(), in the order the wallets were created
WalletOrder == << EventWallet, GenesisWallet, VaultWallet, "a1", "a2" >>
TokenOrder == << LST, CT, DS >>

RECURSIVE yield_of_tokens(_, _, _)
yield_of_tokens(s, w, i) ==
    IF i > Len(TokenOrder) THEN s
    ELSE LET accrued(token, accrued_yield) ==
                 IF accrued_yield > 0
                 THEN yield_of_tokens(add_action(deposit_token(s, w, token, accrued_yield).s,
                                                 "received token yield"), w, i + 1)
                 ELSE yield_of_tokens(s, w, i + 1)
         IN  accrued(TokenOrder[i],
                     Frac(token_balance(s, w, TokenOrder[i]),
                          Get(s.yield_per_block, TokenOrder[i], 0)))

RECURSIVE distribute_yield_from(_, _)
distribute_yield_from(s, i) ==
    IF i > Len(WalletOrder) THEN s
    ELSE LET accrued(w, s1, accrued_eth_yield) ==
                 IF s1.eth_yield_per_block > 0 /\ accrued_eth_yield > 0
                 THEN distribute_yield_from(add_action(deposit_eth(s1, w, accrued_eth_yield).s,
                                                       "received ETH yield"), i + 1)
                 ELSE distribute_yield_from(s1, i + 1)
             paid_tokens(w, s1) ==
                 accrued(w, s1, Frac(s1.eth_balance[w], s1.eth_yield_per_block))
         IN  paid_tokens(WalletOrder[i], yield_of_tokens(s, WalletOrder[i], 1))

distribute_yield(s) == distribute_yield_from(s, 1)

\* a mistaken check: the token debts are not looked at
check_borrowings_repaid_eth_only(s) == IF s.total_borrowed_eth > 0 THEN "ValueError" ELSE "ok"

check_borrowings_repaid(s) ==
    IF s.total_borrowed_eth > 0 THEN "ValueError"
    ELSE IF \E token \in DOMAIN s.total_borrowed_token : s.total_borrowed_token[token] > 0
    THEN "ValueError"
    ELSE "ok"

get_lp_token_price(s) ==
    LET valued(total_vault_value) ==
            IF total_vault_value.err # "ok" THEN total_vault_value
            ELSE [err |-> "ok", ret |-> Div(total_vault_value.ret, s.lp_token_supply)]
    IN  IF s.lp_token_supply = 0 THEN [err |-> "ok", ret |-> 0]
        ELSE valued(get_total_vault_value(s))

\* the exception Agent.get_wallet_face_value raises, "ok" when it returns
get_wallet_face_value(s, a) ==
    LET lp_priced(lp_token_price) ==
            IF VaultPool \in DOMAIN s.lpt_balances[a] /\ lp_token_price.err # "ok"
            THEN lp_token_price.err
            ELSE IF \E p \in DOMAIN s.lpt_balances[a] \ {VaultPool} :
                       /\ s.pools[p].total_lpt_supply # 0
                       /\ price_of_one_token_in_eth(s, p).err # "ok"
            THEN "ValueError"
            ELSE "ok"
    IN  IF \E token \in DOMAIN s.token_balances[a] :
               price_of_one_token_in_eth(s, token).err # "ok"
        THEN "ValueError"
        ELSE lp_priced(get_lp_token_price(s))

\* the exception the first agent of the order whose face value fails raises
FirstError(e, rest) == IF e # "ok" THEN e ELSE rest
RECURSIVE agents_face_value(_, _, _)
agents_face_value(s, order, i) ==
    IF i > Len(order) THEN "ok"
    ELSE FirstError(get_wallet_face_value(s, order[i]), agents_face_value(s, order, i + 1))

EmptyStats ==
    [ agents |-> << >>, tokens |-> << >>, vaults |-> << >>, psms |-> << >>, amms |-> << >>,
      borrowed_eth |-> << >>, borrowed_tokens |-> << >> ]

AgentRows(s, order, block_number) ==
    [i \in 1..Len(order) |-> [block |-> block_number, agent |-> order[i],
                              wallet_eth_balance |-> s.eth_balance[order[i]]]]
TokenRows(block_number) ==
    [i \in 1..Len(TokenOrder) |-> [block |-> block_number, token |-> TokenOrder[i]]]

\* the tables after _append_stats, and the exception that cut it short
append_stats(s, order, tables, block_number) ==
    LET borrowings(t5) ==
            [t5 EXCEPT !.borrowed_eth =
                           IF DOMAIN s.borrowed_eth = {} THEN @
                           ELSE Append(@, [block |-> block_number, amounts |-> s.borrowed_eth]),
                       !.borrowed_tokens =
                           IF \A w \in DOMAIN s.borrowed_token : DOMAIN s.borrowed_token[w] = {}
                           THEN @
                           ELSE Append(@, [block |-> block_number,
                                           amounts |-> s.borrowed_token])]
        vaults_on(t2) ==
            borrowings([t2 EXCEPT !.vaults = Append(@, [block |-> block_number, token |-> LST,
                                                        eth_balance |-> s.eth_balance[VaultWallet]]),
                                  !.psms = Append(@, [block |-> block_number, token |-> LST,
                                                      eth_reserve |-> s.psm.eth_reserve]),
                                  !.amms = @ \o TokenRows(block_number)])
        vault_priced(t2, lp_token_price) ==
            IF lp_token_price.err # "ok" THEN [stats |-> t2, err |-> lp_token_price.err]
            ELSE [stats |-> vaults_on(t2), err |-> "ok"]
        tokens_on(t1) ==
            IF \E token \in Tokens : price_of_one_token_in_eth(s, token).err # "ok"
            THEN [stats |-> t1, err |-> "ValueError"]
            ELSE vault_priced([t1 EXCEPT !.tokens = @ \o TokenRows(block_number)],
                              get_lp_token_price(s))
        agents_on(face_value) ==
            IF face_value # "ok" THEN [stats |-> tables, err |-> face_value]
            ELSE tokens_on([tables EXCEPT !.agents = @ \o AgentRows(s, order, block_number)])
    IN  agents_on(agents_face_value(s, order, 1))

(***************************************************************************)
(* The state after construction: Blockchain(...), add_token(...) and       *)
(* add_agents(...) have run, start_mining has not.  The reserves of the    *)
(* pools are scaled down from the program's (10000 times the genesis       *)
(* balance) so that trades of the agents' size move the prices.            *)
(***************************************************************************)
Profiles == {"ledger", "psm", "vault", "amm_lst", "amm_ct", "amm_ds"}

Budget(p) == IF p = "ledger" THEN MaxLedgerCalls ELSE MaxCalls

\* AMM.__init__ with the given fee
PoolWithFee(reserve_eth, reserve_token, fee) ==
    [ reserve_eth |-> reserve_eth, reserve_token |-> reserve_token, fee |-> fee,
      total_lpt_supply |-> 0, lpt_holders |-> EmptyDict,
      fee_accumulated_eth |-> EmptyDict, fee_accumulated_token |-> EmptyDict ]

\* AMM.__init__ with the default fee
Pool(reserve_eth, reserve_token) == PoolWithFee(reserve_eth, reserve_token, AmmFee)

Init ==
    /\ eth_balance = [w \in Wallets |->
                         IF w = GenesisWallet THEN (GenesisEth - PsmSeed) * SCALE ELSE 0]
    /\ token_balances = [w \in Wallets |->
                            IF w = GenesisWallet
                            THEN Put(Put(EmptyDict, CT, PsmSeed * SCALE), DS, PsmSeed * SCALE)
                            ELSE EmptyDict]
    /\ lpt_balances = [w \in Wallets |-> EmptyDict]
    /\ borrowed_eth = EmptyDict
    /\ total_borrowed_eth = 0
    /\ borrowed_token = EmptyDict
    /\ total_borrowed_token = EmptyDict
    /\ pools = [p \in Tokens |->
                   IF p = LST THEN Pool(LstReserve * SCALE, LstReserve * SCALE)
                   ELSE IF p = CT THEN Pool(Frac(BaseReserve * SCALE, PerMille - Risk),
                                            BaseReserve * SCALE)
                   ELSE Pool(Frac(BaseReserve * SCALE, Risk), BaseReserve * SCALE)]
    /\ psm = [eth_reserve |-> PsmSeed * SCALE, token_reserve |-> 0,
              total_redemption_fee |-> 0, total_repurchase_fee |-> 0]
    /\ lp_token_supply = 0
    /\ lp_holders = EmptyDict
    /\ yield_per_block = Put(EmptyDict, LST, InitialYieldPerBlock)
    /\ eth_yield_per_block = InitialEthYieldPerBlock
    /\ eth_yield = 0
    /\ current_block = 0
    /\ actions = << >>
    /\ all_actions = << >>
    /\ profile \in Profiles
    /\ agents = << "a1", "a2" >>
    /\ stats = EmptyStats
    /\ pc = "genesis"
    /\ turn_index = 1
    /\ turn = NoAgent
    /\ error = "none"
    /\ budget = Budget(profile)
    /\ calls = 0
    /\ last = [n |-> 0, agent |-> NoAgent, op |-> "none", target |-> "none", amount |-> 0,
               err |-> "ok", caught |-> FALSE]
    /\ phases = << >>
    /\ owed = 0
    /\ twin_agents = agents
    /\ origin = [sim_id |-> 0, eth_balance |-> eth_balance,
                 token_balances |-> token_balances, current_block |-> 0]

(***************************************************************************)
(* Blockchain.start_mining                                                 *)
(***************************************************************************)
RECURSIVE genesis_from(_, _, _)
genesis_from(s, order, i) ==
    IF i > Len(order) THEN s
    ELSE LET a == order[i]
             s1 == deposit_eth(s, a, InitialEthBalance * SCALE).s
             s2 == deposit_token(s1, a, LST, InitialAgentBalance * SCALE).s
             s3 == deposit_token(s2, a, CT, 0).s
             s4 == deposit_token(s3, a, DS, 0).s
         IN  genesis_from(s4, order, i + 1)

\* the model follows a run while every amount stays within MaxAmount
Within(x) == 0 - MaxAmount * SCALE <= x /\ x <= MaxAmount * SCALE
InRange(s) ==
    /\ \A w \in Wallets :
           /\ Within(s.eth_balance[w])
           /\ \A token \in DOMAIN s.token_balances[w] : Within(s.token_balances[w][token])
           /\ \A p \in DOMAIN s.lpt_balances[w] : Within(s.lpt_balances[w][p])
    /\ \A p \in Tokens :
           /\ Within(s.pools[p].reserve_eth)
           /\ Within(s.pools[p].reserve_token)
           /\ Within(s.pools[p].total_lpt_supply)
    /\ Within(s.psm.eth_reserve) /\ Within(s.psm.token_reserve)
    /\ Within(s.lp_token_supply)
    /\ Within(s.total_borrowed_eth)
    /\ \A token \in DOMAIN s.total_borrowed_token : Within(s.total_borrowed_token[token])

Engine == UNCHANGED << profile, budget, calls, last, owed, twin_agents, origin >>

Fail(e) == pc' = "failed" /\ error' = e

\* the genesis balances of the agents
Genesis ==
    /\ pc = "genesis"
    /\ Commit(genesis_from(World, agents, 1))
    /\ pc' = "stats"
    /\ UNCHANGED << all_actions, agents, stats, turn_index, turn, error, phases >>
    /\ Engine

\* the snapshot r is taken, then the log of the block is filed
Snapshot(r) ==
    /\ stats' = r.stats
    /\ IF r.err # "ok"
       THEN /\ Fail(r.err)
            /\ UNCHANGED << actions, all_actions >>
       ELSE /\ all_actions' = Append(all_actions, actions)
            /\ actions' = << >>
            /\ pc' = IF current_block < NumBlocks THEN "yield" ELSE "done"
            /\ error' = error

\* collect_stats(block_number)
CollectStats ==
    /\ pc = "stats"
    /\ Snapshot(append_stats(World, agents, stats, current_block))
    /\ phases' = Append(phases, << "snapshot", "engine" >>)
    /\ UNCHANGED << eth_balance, token_balances, lpt_balances, borrowed_eth,
                    total_borrowed_eth, borrowed_token, total_borrowed_token, pools, psm,
                    lp_token_supply, lp_holders, yield_per_block, eth_yield_per_block,
                    eth_yield, current_block, agents, turn_index, turn >>
    /\ Engine

Distributed(s) == InRange(s) /\ Commit(s)

\* the head of the loop over the blocks, and _distribute_yield
DistributeYield ==
    /\ pc = "yield"
    /\ Distributed(distribute_yield(add_action_marker(
                       [World EXCEPT !.current_block = current_block + 1])))
    /\ pc' = "events"
    /\ phases' = << << "yield", "engine" >> >>
    /\ UNCHANGED << all_actions, agents, stats, turn_index, turn, error >>
    /\ Engine

\* the events of the block have ended as r says
Applied(r) ==
    /\ InRange(r.s)
    /\ IF Failed(r)
       THEN Commit(r.s) /\ Fail(r.err)
       ELSE Commit([r.s EXCEPT !.actions = Append(@, "")]) /\ pc' = "shuffle" /\ error' = error

\* event_manager.on_block(block_number, self)
ApplyEvents ==
    /\ pc = "events"
    /\ Applied(on_block(World, current_block))
    /\ phases' = Append(phases, << "events", "engine" >>)
    /\ UNCHANGED << all_actions, agents, stats, turn_index, turn >>
    /\ Engine

\* random.shuffle(self.agents)
Shuffle ==
    /\ pc = "shuffle"
    /\ \E order \in {<< "a1", "a2" >>, << "a2", "a1" >>} : agents' = order
    /\ turn_index' = 1
    /\ pc' = "agents"
    /\ UNCHANGED << eth_balance, token_balances, lpt_balances, borrowed_eth,
                    total_borrowed_eth, borrowed_token, total_borrowed_token, pools, psm,
                    lp_token_supply, lp_holders, yield_per_block, eth_yield_per_block,
                    eth_yield, current_block, actions, all_actions, stats, turn, error, phases >>
    /\ Engine

TurnMarker(a) == IF a = "a1" THEN "It's a1's turn now ..." ELSE "It's a2's turn now ..."

\* the loop over the agents reaches the next agent: its on_block_mined starts
BeginTurn ==
    /\ pc = "agents" /\ turn = NoAgent /\ turn_index <= Len(agents)
    /\ turn' = agents[turn_index]
    /\ actions' = Append(actions, TurnMarker(agents[turn_index]))
    /\ phases' = Append(phases, << "turn", agents[turn_index] >>)
    /\ UNCHANGED << eth_balance, token_balances, lpt_balances, borrowed_eth,
                    total_borrowed_eth, borrowed_token, total_borrowed_token, pools, psm,
                    lp_token_supply, lp_holders, yield_per_block, eth_yield_per_block,
                    eth_yield, current_block, all_actions, agents, stats, pc, turn_index, error >>
    /\ Engine

\* the loop over the agents does not move on: the same agent is served again
EndTurn_same_agent_again ==
    /\ pc = "agents" /\ turn # NoAgent
    /\ turn' = NoAgent
    /\ turn_index' = turn_index
    /\ actions' = Append(actions, "")
    /\ UNCHANGED << eth_balance, token_balances, lpt_balances, borrowed_eth,
                    total_borrowed_eth, borrowed_token, total_borrowed_token, pools, psm,
                    lp_token_supply, lp_holders, yield_per_block, eth_yield_per_block,
                    eth_yield, current_block, all_actions, agents, stats, pc, error, phases >>
    /\ Engine

\* on_block_mined returns
EndTurn ==
    /\ pc = "agents" /\ turn # NoAgent
    /\ turn' = NoAgent
    /\ turn_index' = turn_index + 1
    /\ actions' = Append(actions, "")
    /\ UNCHANGED << eth_balance, token_balances, lpt_balances, borrowed_eth,
                    total_borrowed_eth, borrowed_token, total_borrowed_token, pools, psm,
                    lp_token_supply, lp_holders, yield_per_block, eth_yield_per_block,
                    eth_yield, current_block, all_actions, agents, stats, pc, error, phases >>
    /\ Engine

\* the block ends after the check, no snapshot of it is taken
CheckBorrowings_without_snapshot ==
    /\ pc = "agents" /\ turn = NoAgent /\ turn_index > Len(agents)
    /\ actions' = Append(actions, "All agents took action.")
    /\ IF check_borrowings_repaid(World) # "ok"
       THEN Fail("ValueError: not all borrowed has been repaid")
       ELSE pc' = (IF current_block < NumBlocks THEN "yield" ELSE "done") /\ error' = error
    /\ phases' = Append(phases, << "check", "engine" >>)
    /\ UNCHANGED << eth_balance, token_balances, lpt_balances, borrowed_eth,
                    total_borrowed_eth, borrowed_token, total_borrowed_token, pools, psm,
                    lp_token_supply, lp_holders, yield_per_block, eth_yield_per_block,
                    eth_yield, current_block, all_actions, agents, stats, turn_index, turn >>
    /\ Engine

\* every agent has had its turn: _check_borrowings_repaid(block_number)
CheckBorrowings ==
    /\ pc = "agents" /\ turn = NoAgent /\ turn_index > Len(agents)
    /\ actions' = Append(actions, "All agents took action.")
    /\ IF check_borrowings_repaid(World) # "ok"
       THEN Fail("ValueError: not all borrowed has been repaid")
       ELSE pc' = "stats" /\ error' = error
    /\ phases' = Append(phases, << "check", "engine" >>)
    /\ UNCHANGED << eth_balance, token_balances, lpt_balances, borrowed_eth,
                    total_borrowed_eth, borrowed_token, total_borrowed_token, pools, psm,
                    lp_token_supply, lp_holders, yield_per_block, eth_yield_per_block,
                    eth_yield, current_block, all_actions, agents, stats, turn_index, turn >>
    /\ Engine

(***************************************************************************)
(* The agents.  on_block_mined of an agent is a sequence of calls of the   *)
(* operations of the engine, the PSM, the pools and the vault on the       *)
(* agent's own wallet.  Some agents wrap a call in try/except ValueError   *)
(* (agents/ds_long_term.py) and go on after it failed, the others let the  *)
(* exception end start_mining.                                             *)
(***************************************************************************)
EthAmounts(a) == {AmountUnit, eth_balance[a]}
TokenAmounts(a, token) == {AmountUnit, token_balance(World, a, token)}
LptAmounts(a, pool_name) == {AmountUnit, lpt_balance(World, a, pool_name)}

Vocabulary(p) ==
    IF p = "ledger" THEN {"borrow_eth", "repay_eth", "borrow_token", "repay_token",
                          "psm.deposit_eth"}
    ELSE IF p = "psm" THEN {"psm.deposit_eth", "redeem_with_ct_and_ds",
                            "redeem_with_token_and_ds", "redeem_with_ct_post_expiry",
                            "repurchase_token_and_ds"}
    ELSE IF p = "vault" THEN {"psm.deposit_eth", "vault.deposit_eth", "withdraw_lp_tokens",
                              "buy_ds", "sell_ds"}
    ELSE {"add_liquidity", "remove_liquidity", "swap_eth_for_token", "swap_token_for_eth"}

\* the pools an agent of the profile trades in
PoolsOf(p) ==
    IF p = "amm_lst" THEN {LST} ELSE IF p = "amm_ct" THEN {CT} ELSE IF p = "amm_ds" THEN {DS}
    ELSE {}

\* agent a calls op and the call ends as r says
Call(a, op, target, amount, r, guarded) ==
    /\ pc = "agents" /\ turn = a /\ calls < budget
    /\ op \in Vocabulary(profile)
    /\ InRange(r.s)
    /\ Commit(r.s)
    /\ calls' = calls + 1
    /\ last' = [n |-> calls + 1, agent |-> a, op |-> op, target |-> target, amount |-> amount,
                err |-> r.err, caught |-> guarded /\ r.err = "ValueError"]
    /\ phases' = Append(phases, << "call", a >>)
    /\ owed' = IF r.err = "ok" /\ op = "borrow_eth" THEN owed + amount
               ELSE IF r.err = "ok" /\ op = "repay_eth" THEN owed - amount
               ELSE owed
    /\ IF r.err = "ok" \/ (guarded /\ r.err = "ValueError")
       THEN pc' = pc /\ error' = error
       ELSE IF r.err = "Hang" THEN pc' = "hung" /\ error' = error
       ELSE Fail(r.err)
    /\ UNCHANGED << all_actions, profile, agents, stats, turn_index, turn, budget,
                    twin_agents, origin >>

BorrowEth ==
    \E a \in Agents, guarded \in BOOLEAN : \E amount \in {AmountUnit} :
        Call(a, "borrow_eth", "ETH", amount, borrow_eth(World, a, amount), guarded)

RepayEth ==
    \E a \in Agents, guarded \in BOOLEAN : \E amount \in EthAmounts(a) :
        Call(a, "repay_eth", "ETH", amount, repay_eth(World, a, amount), guarded)

BorrowToken ==
    \E a \in Agents, guarded \in BOOLEAN : \E amount \in {AmountUnit} :
        Call(a, "borrow_token", CT, amount, borrow_token(World, a, CT, amount), guarded)

RepayToken ==
    \E a \in Agents, guarded \in BOOLEAN : \E amount \in TokenAmounts(a, CT) :
        Call(a, "repay_token", CT, amount, repay_token(World, a, CT, amount), guarded)

PsmDepositEth ==
    \E a \in Agents, guarded \in BOOLEAN : \E amount \in EthAmounts(a) :
        Call(a, "psm.deposit_eth", LST, amount, psm_deposit_eth(World, a, amount), guarded)

RedeemWithCtAndDs ==
    \E a \in Agents, guarded \in BOOLEAN : \E amount \in TokenAmounts(a, DS) :
        Call(a, "redeem_with_ct_and_ds", LST, amount,
             redeem_with_ct_and_ds(World, a, amount, current_block), guarded)

RedeemWithTokenAndDs ==
    \E a \in Agents, guarded \in BOOLEAN : \E amount \in TokenAmounts(a, DS) :
        Call(a, "redeem_with_token_and_ds", LST, amount,
             redeem_with_token_and_ds(World, a, amount, current_block), guarded)

RedeemWithCtPostExpiry ==
    \E a \in Agents, guarded \in BOOLEAN : \E amount \in TokenAmounts(a, CT) :
        Call(a, "redeem_with_ct_post_expiry", LST, amount,
             redeem_with_ct_post_expiry(World, a, amount, current_block), guarded)

RepurchaseTokenAndDs ==
    \E a \in Agents, guarded \in BOOLEAN : \E amount \in EthAmounts(a) :
        Call(a, "repurchase_token_and_ds", LST, amount,
             repurchase_token_and_ds(World, a, amount), guarded)

VaultDepositEth ==
    \E a \in Agents, guarded \in BOOLEAN : \E amount \in EthAmounts(a) :
        Call(a, "vault.deposit_eth", LST, amount, vault_deposit_eth(World, a, amount), guarded)

WithdrawLpTokens ==
    \E a \in Agents, guarded \in BOOLEAN : \E amount \in LptAmounts(a, VaultPool) :
        Call(a, "withdraw_lp_tokens", LST, amount, withdraw_lp_tokens(World, a, amount), guarded)

BuyDs ==
    \E a \in Agents, guarded \in BOOLEAN : \E amount \in EthAmounts(a) :
        Call(a, "buy_ds", LST, amount, buy_ds(World, a, amount), guarded)

SellDs ==
    \E a \in Agents, guarded \in BOOLEAN :
        \E amount \in TokenAmounts(a, DS) \cup {0 - AmountUnit} :
            Call(a, "sell_ds", LST, amount, sell_ds(World, a, amount), guarded)

AddLiquidity ==
    \E a \in Agents, guarded \in BOOLEAN, p \in PoolsOf(profile) :
        \E amount_eth \in {AmountSmall, AmountUnit}, amount_token \in TokenAmounts(a, p) :
            Call(a, "add_liquidity", p, amount_token,
                 add_liquidity(World, p, a, amount_eth, amount_token), guarded)

RemoveLiquidity ==
    \E a \in Agents, guarded \in BOOLEAN, p \in PoolsOf(profile) : \E amount \in LptAmounts(a, p) :
        Call(a, "remove_liquidity", p, amount, remove_liquidity(World, p, a, amount), guarded)

SwapEthForToken ==
    \E a \in Agents, guarded \in BOOLEAN, p \in PoolsOf(profile) : \E amount \in EthAmounts(a) :
        Call(a, "swap_eth_for_token", p, amount, swap_eth_for_token(World, p, a, amount), guarded)

SwapTokenForEth ==
    \E a \in Agents, guarded \in BOOLEAN, p \in PoolsOf(profile) : \E amount \in TokenAmounts(a, p) :
        Call(a, "swap_token_for_eth", p, amount, swap_token_for_eth(World, p, a, amount), guarded)

Next ==
    \/ Genesis
    \/ CollectStats
    \/ DistributeYield
    \/ ApplyEvents
    \/ Shuffle
    \/ BeginTurn
    \/ EndTurn
    \/ CheckBorrowings
    \/ BorrowEth
    \/ RepayEth
    \/ BorrowToken
    \/ RepayToken
    \/ PsmDepositEth
    \/ RedeemWithCtAndDs
    \/ RedeemWithTokenAndDs
    \/ RedeemWithCtPostExpiry
    \/ RepurchaseTokenAndDs
    \/ VaultDepositEth
    \/ WithdrawLpTokens
    \/ BuyDs
    \/ SellDs
    \/ AddLiquidity
    \/ RemoveLiquidity
    \/ SwapEthForToken
    \/ SwapTokenForEth

Spec == Init /\ [][Next]_vars

(***************************************************************************)
(* The EventManager on its own: a pool built with given reserves and fee,  *)
(* and events handed to on_block one after the other in block 1            *)
(***************************************************************************)
EventReserves == {(LstReserve - 2) * SCALE, (LstReserve - 1) * SCALE, LstReserve * SCALE,
                  (LstReserve + 2) * SCALE}
EventFees == {0, AmmFee}
Percentages == {0 - DepegSmall, DepegSmall, DepegHalf, PerMille, DepegOver}

InitEvents ==
    /\ eth_balance = [w \in Wallets |-> 0]
    /\ token_balances = [w \in Wallets |-> EmptyDict]
    /\ lpt_balances = [w \in Wallets |-> EmptyDict]
    /\ borrowed_eth = EmptyDict
    /\ total_borrowed_eth = 0
    /\ borrowed_token = EmptyDict
    /\ total_borrowed_token = EmptyDict
    /\ \E reserve_eth \in EventReserves, reserve_token \in EventReserves, fee \in EventFees :
           pools = [p \in Tokens |->
                       IF p = LST THEN PoolWithFee(reserve_eth, reserve_token, fee)
                       ELSE IF p = CT THEN Pool(Frac(BaseReserve * SCALE, PerMille - Risk),
                                                BaseReserve * SCALE)
                       ELSE Pool(Frac(BaseReserve * SCALE, Risk), BaseReserve * SCALE)]
    /\ psm = [eth_reserve |-> 0, token_reserve |-> 0,
              total_redemption_fee |-> 0, total_repurchase_fee |-> 0]
    /\ lp_token_supply = 0
    /\ lp_holders = EmptyDict
    /\ yield_per_block = Put(EmptyDict, LST, InitialYieldPerBlock)
    /\ eth_yield_per_block = InitialEthYieldPerBlock
    /\ eth_yield = 0
    /\ current_block = 1
    /\ actions = << >>
    /\ all_actions = << >>
    /\ profile = "events"
    /\ agents = << >>
    /\ stats = EmptyStats
    /\ pc = "events"
    /\ turn_index = 1
    /\ turn = NoAgent
    /\ error = "none"
    /\ budget = MaxEvents
    /\ calls = 0
    /\ last = [n |-> 0, agent |-> NoAgent, op |-> "none", target |-> "none", amount |-> 0,
               err |-> "ok", caught |-> FALSE]
    /\ phases = << >>
    /\ owed = 0
    /\ twin_agents = agents
    /\ origin = [sim_id |-> 0, eth_balance |-> eth_balance,
                 token_balances |-> token_balances, current_block |-> 0]

\* on_block finds the event in its schedule and the event ends as r says
Handled(op, event, amount, r) ==
    /\ pc = "events" /\ calls < budget
    /\ InRange(r.s)
    /\ Commit(r.s)
    /\ calls' = calls + 1
    /\ last' = [n |-> calls + 1, agent |-> EventWallet, op |-> op, target |-> event.token,
                amount |-> amount, err |-> r.err, caught |-> FALSE]
    /\ IF Failed(r) THEN Fail(r.err) ELSE pc' = pc /\ error' = error
    /\ UNCHANGED << all_actions, profile, agents, stats, turn_index, turn, budget, phases,
                    owed, twin_agents, origin >>

Handle(op, event, amount) == Handled(op, event, amount, apply_event(World, event))

Depeg ==
    \E percentage \in Percentages :
        Handle("depeg", [block |-> current_block, type |-> "depeg", token |-> LST,
                         percentage |-> percentage], percentage)

Repeg ==
    Handle("repeg", [block |-> current_block, type |-> "repeg", token |-> LST,
                     percentage |-> 0], 0)

\* an event of scenarios.py as run_simulation hands it to the event manager:
\* ev.setdefault("type", "action")
ScenarioEvent(event) == [event EXCEPT !.type = "action"]

\* minor_liquidity_shock: a set_price event
SetPrice ==
    \E new_price \in {PerMille - DepegSmall, PerMille} :
        Handle("set_price",
               ScenarioEvent([block |-> current_block, type |-> "", target |-> "amm",
                              method |-> "set_price", token |-> LST,
                              new_price |-> new_price]),
               new_price)

\* moderate_depeg_pressure: an inject_liquidity event
InjectLiquidity ==
    \E delta \in {0 - DepegHalf, 0 - AmountUnit, AmountUnit} :
        Handle("inject_liquidity",
               ScenarioEvent([block |-> current_block, type |-> "", target |-> "amm",
                              method |-> "inject_liquidity", token |-> LST,
                              eth_delta |-> delta, token_delta |-> delta]),
               delta)

NextEvents ==
    \/ Depeg
    \/ Repeg
    \/ SetPrice
    \/ InjectLiquidity

SpecEvents == InitEvents /\ [][NextEvents]_vars

(***************************************************************************)
(* Two runs of start_mining from the same configuration, side by side: the *)
(* engine draws the order of the agents with random.shuffle, which reads   *)
(* the generator of the process; Blockchain.__init__ takes no seed and     *)
(* start_mining sets none.  The agents registered make no calls.           *)
(***************************************************************************)
ShuffleTwoRuns ==
    /\ pc = "shuffle"
    /\ \E order, twin_order \in {<< "a1", "a2" >>, << "a2", "a1" >>} :
           agents' = order /\ twin_agents' = twin_order
    /\ turn_index' = 1
    /\ pc' = "agents"
    /\ UNCHANGED << eth_balance, token_balances, lpt_balances, borrowed_eth,
                    total_borrowed_eth, borrowed_token, total_borrowed_token, pools, psm,
                    lp_token_supply, lp_holders, yield_per_block, eth_yield_per_block,
                    eth_yield, current_block, actions, all_actions, stats, turn, error, phases >>
    /\ UNCHANGED << profile, budget, calls, last, owed, origin >>

NextTwoRuns ==
    \/ Genesis
    \/ CollectStats
    \/ DistributeYield
    \/ ApplyEvents
    \/ ShuffleTwoRuns
    \/ BeginTurn
    \/ EndTurn
    \/ CheckBorrowings

SpecTwoRuns == Init /\ [][NextTwoRuns]_vars

(***************************************************************************)
(* The Monte Carlo fan-out as one worker process of the pool sees it:      *)
(* _run_single_simulation deep-copies the engine and runs start_mining on  *)
(* the copy, one simulation after the other.  The variables are the copy;  *)
(* origin holds what stays with the engine copied.  copy.deepcopy builds   *)
(* the wallets of the copy without calling Wallet.__init__, so the list    *)
(* Wallet.wallets still holds the wallets of the engine copied, and        *)
(* Blockchain.current_block is an attribute of the class.  The agents are  *)
(* of the base class Agent, whose on_block_mined does nothing.             *)
(***************************************************************************)
\* copy.deepcopy(self): the engine as it was constructed, with its wallets as
\* they are now
DeepCopy ==
    [ eth_balance |-> origin.eth_balance,
      token_balances |-> origin.token_balances,
      lpt_balances |-> [w \in Wallets |-> EmptyDict],
      borrowed_eth |-> EmptyDict,
      total_borrowed_eth |-> 0,
      borrowed_token |-> EmptyDict,
      total_borrowed_token |-> EmptyDict,
      pools |-> [p \in Tokens |->
                    IF p = LST THEN Pool(LstReserve * SCALE, LstReserve * SCALE)
                    ELSE IF p = CT THEN Pool(Frac(BaseReserve * SCALE, PerMille - Risk),
                                             BaseReserve * SCALE)
                    ELSE Pool(Frac(BaseReserve * SCALE, Risk), BaseReserve * SCALE)],
      psm |-> [eth_reserve |-> PsmSeed * SCALE, token_reserve |-> 0,
               total_redemption_fee |-> 0, total_repurchase_fee |-> 0],
      lp_token_supply |-> 0,
      lp_holders |-> EmptyDict,
      yield_per_block |-> Put(EmptyDict, LST, InitialYieldPerBlock),
      eth_yield_per_block |-> eth_yield_per_block,
      eth_yield |-> 0,
      current_block |-> 0,
      actions |-> << >> ]

\* the first simulation of the worker has its copy of the engine
InitMonteCarlo ==
    /\ eth_balance = [w \in Wallets |->
                         IF w = GenesisWallet THEN (GenesisEth - PsmSeed) * SCALE ELSE 0]
    /\ token_balances = [w \in Wallets |->
                            IF w = GenesisWallet
                            THEN Put(Put(EmptyDict, CT, PsmSeed * SCALE), DS, PsmSeed * SCALE)
                            ELSE EmptyDict]
    /\ lpt_balances = [w \in Wallets |-> EmptyDict]
    /\ borrowed_eth = EmptyDict
    /\ total_borrowed_eth = 0
    /\ borrowed_token = EmptyDict
    /\ total_borrowed_token = EmptyDict
    /\ pools = [p \in Tokens |->
                   IF p = LST THEN Pool(LstReserve * SCALE, LstReserve * SCALE)
                   ELSE IF p = CT THEN Pool(Frac(BaseReserve * SCALE, PerMille - Risk),
                                            BaseReserve * SCALE)
                   ELSE Pool(Frac(BaseReserve * SCALE, Risk), BaseReserve * SCALE)]
    /\ psm = [eth_reserve |-> PsmSeed * SCALE, token_reserve |-> 0,
              total_redemption_fee |-> 0, total_repurchase_fee |-> 0]
    /\ lp_token_supply = 0
    /\ lp_holders = EmptyDict
    /\ yield_per_block = Put(EmptyDict, LST, InitialYieldPerBlock)
    /\ eth_yield_per_block \in {InitialEthYieldPerBlock, MonteCarloEthYield}
    /\ eth_yield = 0
    /\ current_block = 0
    /\ actions = << >>
    /\ all_actions = << >>
    /\ profile = "idle"
    /\ agents = << "a1", "a2" >>
    /\ stats = EmptyStats
    /\ pc = "genesis"
    /\ turn_index = 1
    /\ turn = NoAgent
    /\ error = "none"
    /\ budget = 0
    /\ calls = 0
    /\ last = [n |-> 0, agent |-> NoAgent, op |-> "none", target |-> "none", amount |-> 0,
               err |-> "ok", caught |-> FALSE]
    /\ phases = << >>
    /\ owed = 0
    /\ twin_agents = agents
    /\ origin = [sim_id |-> 1, eth_balance |-> eth_balance,
                 token_balances |-> token_balances, current_block |-> 0]

\* what _distribute_yield of a copy does to the wallets of Wallet.wallets, at the
\* rates of the copy, and the lines it writes in the log of the copy
YieldOfCopy ==
    distribute_yield([add_action_marker([World EXCEPT !.current_block = current_block + 1])
                         EXCEPT !.eth_balance = origin.eth_balance,
                                !.token_balances = origin.token_balances])

\* the head of the loop over the blocks, and _distribute_yield, in a copy
DistributeYieldOfCopy ==
    /\ pc = "yield"
    /\ InRange(YieldOfCopy)
    /\ Commit([YieldOfCopy EXCEPT !.eth_balance = eth_balance,
                                  !.token_balances = token_balances])
    /\ origin' = [origin EXCEPT !.eth_balance = YieldOfCopy.eth_balance,
                                !.token_balances = YieldOfCopy.token_balances,
                                !.current_block = current_block + 1]
    /\ pc' = "events"
    /\ phases' = << << "yield", "engine" >> >>
    /\ UNCHANGED << all_actions, agents, stats, turn_index, turn, error >>
    /\ UNCHANGED << profile, budget, calls, last, owed, twin_agents >>

\* the simulation has returned: the worker takes the next one
RunSingleSimulation ==
    /\ pc = "done" /\ origin.sim_id < MaxSimulations
    /\ Commit(DeepCopy)
    /\ origin' = [origin EXCEPT !.sim_id = @ + 1]
    /\ all_actions' = << >>
    /\ agents' = << "a1", "a2" >>
    /\ stats' = EmptyStats
    /\ pc' = "genesis"
    /\ turn_index' = 1
    /\ phases' = << >>
    /\ UNCHANGED << turn, error, profile, budget, calls, last, owed, twin_agents >>

NextMonteCarlo ==
    \/ Genesis
    \/ CollectStats
    \/ DistributeYieldOfCopy
    \/ ApplyEvents
    \/ Shuffle
    \/ BeginTurn
    \/ EndTurn
    \/ CheckBorrowings
    \/ RunSingleSimulation

SpecMonteCarlo == InitMonteCarlo /\ [][NextMonteCarlo]_vars

(***************************************************************************)
(* The Vault on its own: YieldSpace pools of CT and DS built with given    *)
(* reserves, and an agent with some ETH whose on_block_mined, in block 1,  *)
(* calls buy_ds                                                            *)
(***************************************************************************)
InitVault ==
    /\ \E eth \in {(InitialEthBalance * SCALE) \div 2, InitialEthBalance * SCALE} :
           eth_balance = [w \in Wallets |->
                             IF w = GenesisWallet THEN (GenesisEth - PsmSeed) * SCALE
                             ELSE IF w = "a1" THEN eth ELSE 0]
    /\ token_balances = [w \in Wallets |->
                            IF w = GenesisWallet
                            THEN Put(Put(EmptyDict, CT, PsmSeed * SCALE), DS, PsmSeed * SCALE)
                            ELSE IF w = "a1" THEN Put(Put(EmptyDict, CT, 0), DS, 0)
                            ELSE EmptyDict]
    /\ lpt_balances = [w \in Wallets |-> EmptyDict]
    /\ borrowed_eth = EmptyDict
    /\ total_borrowed_eth = 0
    /\ borrowed_token = EmptyDict
    /\ total_borrowed_token = EmptyDict
    /\ \E ct_eth, ct_token, ds_eth, ds_token \in
              {AmountUnit \div 2, AmountUnit, 5 * AmountUnit, BaseReserve * SCALE} :
           pools = [p \in Tokens |->
                       IF p = LST THEN Pool(LstReserve * SCALE, LstReserve * SCALE)
                       ELSE IF p = CT THEN Pool(ct_eth, ct_token)
                       ELSE Pool(ds_eth, ds_token)]
    /\ psm = [eth_reserve |-> PsmSeed * SCALE, token_reserve |-> 0,
              total_redemption_fee |-> 0, total_repurchase_fee |-> 0]
    /\ lp_token_supply = 0
    /\ lp_holders = EmptyDict
    /\ yield_per_block = Put(EmptyDict, LST, InitialYieldPerBlock)
    /\ eth_yield_per_block = InitialEthYieldPerBlock
    /\ eth_yield = 0
    /\ current_block = 1
    /\ actions = << >>
    /\ all_actions = << >>
    /\ profile = "vault"
    /\ agents = << "a1", "a2" >>
    /\ stats = EmptyStats
    /\ pc = "agents"
    /\ turn_index = 1
    /\ turn = "a1"
    /\ error = "none"
    /\ budget = MaxCalls
    /\ calls = 0
    /\ last = [n |-> 0, agent |-> NoAgent, op |-> "none", target |-> "none", amount |-> 0,
               err |-> "ok", caught |-> FALSE]
    /\ phases = << >>
    /\ owed = 0
    /\ twin_agents = agents
    /\ origin = [sim_id |-> 0, eth_balance |-> eth_balance,
                 token_balances |-> token_balances, current_block |-> 0]

SpecVault == InitVault /\ [][BuyDs]_vars


(***************************************************************************)
(* Properties                                                              *)
(***************************************************************************)
\* the vault's own entries in the ledger
VaultEthDebt(s) == Get(s.borrowed_eth, VaultWallet, 0)
VaultCtDebt(s) == Get(Get(s.borrowed_token, VaultWallet, EmptyDict), CT, 0)

\* the step is a call of op by an agent
CallOf(ops) == calls' = calls + 1 /\ last'.op \in ops

\* no balance, reserve, supply or ledger entry changes
Untouched ==
    UNCHANGED << eth_balance, token_balances, lpt_balances, borrowed_eth, total_borrowed_eth,
                 borrowed_token, total_borrowed_token, pools, psm, lp_token_supply,
                 lp_holders >>

\* C1: whenever the snapshot of a block b >= 1 is about to be taken, the ledger
\* is empty: total_borrowed_eth is 0 and total_borrowed_token is 0 for every
\* token.
C1_LedgerEmptyAtSnapshot ==
    (pc = "stats" /\ current_block >= 1) =>
        /\ total_borrowed_eth = 0
        /\ \A token \in DOMAIN total_borrowed_token : total_borrowed_token[token] = 0

\* a block in which a loan was taken and given back reaches its snapshot
C1_Witness ==
    /\ pc = "stats" /\ current_block >= 1
    /\ last.op \in {"repay_eth", "repay_token"} /\ last.err = "ok"
    /\ \E i \in DOMAIN actions : actions[i] \in {"borrowed ETH", "borrowed token"}

\* C2: a block in which an agent borrowed ETH and did not give all of it back
\* never reaches its snapshot: the check at the end of the block ends the run.
C2_UnrepaidLoanEndsRun ==
    (pc = "stats" /\ current_block >= 1) => owed = 0

\* C3: a buy_ds or sell_ds that returns normally leaves the vault's ledger
\* entries (ETH borrowed, CT borrowed) exactly as they were before the call.
C3_NoDebtLeftBehind ==
    [][(CallOf({"buy_ds", "sell_ds"}) /\ last'.err = "ok") =>
           /\ VaultEthDebt(World)' = VaultEthDebt(World)
           /\ VaultCtDebt(World)' = VaultCtDebt(World)
           /\ total_borrowed_eth' = total_borrowed_eth
           /\ \A token \in Tokens :
                  Get(total_borrowed_token', token, 0) = Get(total_borrowed_token, token, 0)]_vars

\* a buy_ds has returned normally and the buyer holds the DS it bought
C3_Witness ==
    /\ last.op = "buy_ds" /\ last.err = "ok"
    /\ token_balance(World, last.agent, DS) > 0
    /\ VaultEthDebt(World) = 0

\* C4: a buy_ds or sell_ds that fails ends either with the vault's loan repaid
\* or with every balance, reserve and ledger entry as before the call.
C4_AllOrNothing ==
    [][(CallOf({"buy_ds", "sell_ds"}) /\ last'.err \notin {"ok", "Hang"}) =>
           \/ /\ VaultEthDebt(World)' = VaultEthDebt(World)
              /\ VaultCtDebt(World)' = VaultCtDebt(World)
           \/ Untouched]_vars

\* C5: when the dry run of buy_ds (sell_ds) for the amount gives a result <= 0,
\* the call fails with the not-enough-liquidity ValueError and no balance,
\* reserve or ledger entry changes.
C5_DryRunRefusal ==
    [][/\ (/\ CallOf({"buy_ds"})
           /\ calculate_buy_ds_outcome(World, last'.amount).err = "ok"
           /\ calculate_buy_ds_outcome(World, last'.amount).ret <= 0)
          => (last'.err = "ValueError" /\ Untouched)
       /\ (/\ CallOf({"sell_ds"})
           /\ calculate_sell_ds_outcome(World, last'.amount).err = "ok"
           /\ calculate_sell_ds_outcome(World, last'.amount).ret <= 0)
          => (last'.err = "ValueError" /\ Untouched)]_vars

\* a buy_ds whose dry run gives nothing has been refused
C5_Witness ==
    /\ last.op = "buy_ds" /\ last.err = "ValueError"
    /\ calculate_buy_ds_outcome(World, last.amount).err = "ok"
    /\ calculate_buy_ds_outcome(World, last.amount).ret <= 0

\* C6: every ETH, token and LP balance of every wallet is >= 0, and a
\* withdrawal of more than the wallet holds fails with ValueError and leaves
\* everything as it was.
C6_NoOverdraft ==
    /\ \A w \in Wallets :
           /\ eth_balance[w] >= 0
           /\ \A token \in DOMAIN token_balances[w] : token_balances[w][token] >= 0
           /\ \A p \in DOMAIN lpt_balances[w] : lpt_balances[w][p] >= 0
    /\ \A w \in Wallets :
           /\ withdraw_eth(World, w, eth_balance[w] + 1) = Raise(World, "ValueError")
           /\ \A token \in Tokens :
                  withdraw_token(World, w, token, token_balance(World, w, token) + 1)
                      = Raise(World, "ValueError")
           /\ \A p \in Tokens :
                  withdraw_lpt(World, w, p, lpt_balance(World, w, p) + 1)
                      = Raise(World, "ValueError")

\* an agent has asked the PSM for more ETH than it holds and was refused
C6_Witness ==
    /\ last.op = "psm.deposit_eth" /\ last.err = "ValueError"
    /\ last.amount > eth_balance[last.agent]
    /\ calls > 1

\* C7: in every pool the shares of the holders add up to total_lpt_supply.
C7_LpShareConservation ==
    \A p \in Tokens : SumDict(pools[p].lpt_holders) = pools[p].total_lpt_supply

\* C8: the vault's lp_token_supply is the sum of lp_holders.
C8_VaultShareConservation == lp_token_supply = SumDict(lp_holders)

\* a holder has withdrawn vault shares and shares are still out
C8_Witness ==
    /\ last.op = "withdraw_lp_tokens" /\ last.err = "ok"
    /\ lp_token_supply > 0

\* what the engine does in a block, the calls of the agents left out
IsPhase(e) == e[1] # "call"
Order(order) ==
    << << "yield", "engine" >>, << "events", "engine" >> >>
        \o [i \in 1..Len(order) |-> << "turn", order[i] >>]
        \o << << "check", "engine" >>, << "snapshot", "engine" >> >>
IsPrefix(p, q) == Len(p) <= Len(q) /\ \A i \in 1..Len(p) : p[i] = q[i]

\* C9: in every block b >= 1 the phases happen in the order yield, events, one
\* turn for every agent in the shuffled order, the ledger check, the snapshot,
\* each once; every call of an agent lies within that agent's own turn, and a
\* block that ends has had all of them.
C9_PhaseOrder ==
    current_block >= 1 =>
        /\ IsPrefix(SelectSeq(phases, IsPhase), Order(agents))
        /\ \A i \in 1..Len(phases) :
               phases[i][1] = "call" =>
                   \E j \in 1..(i - 1) :
                       /\ phases[j] = << "turn", phases[i][2] >>
                       /\ \A k \in (j + 1)..(i - 1) : phases[k][1] = "call"
        /\ pc = "events" => Len(SelectSeq(phases, IsPhase)) = 1
        /\ pc = "shuffle" => Len(SelectSeq(phases, IsPhase)) = 2
        /\ (pc = "agents" /\ turn # NoAgent) =>
               /\ Len(SelectSeq(phases, IsPhase)) = 2 + turn_index
               /\ turn = agents[turn_index]
        /\ (pc = "agents" /\ turn = NoAgent) =>
               Len(SelectSeq(phases, IsPhase)) = 1 + turn_index
        /\ pc = "stats" => Len(SelectSeq(phases, IsPhase)) = Len(agents) + 3
        /\ pc \in {"yield", "done"} => SelectSeq(phases, IsPhase) = Order(agents)

\* a block in which both agents made a call has ended with its snapshot
C9_Witness ==
    /\ pc \in {"yield", "done"} /\ current_block >= 1
    /\ \A a \in Agents : \E i \in 1..Len(phases) : phases[i] = << "call", a >>

\* block b holds per rows in the table, and the rows are in the order of the blocks
Recorded(rows, per, upto) ==
    /\ Len(rows) = per * (upto + 1)
    /\ \A i \in 1..Len(rows) : rows[i].block = (i - 1) \div per

C10_Recorded ==
    /\ \A i \in 1..Len(stats.vaults) : stats.vaults[i].block = i - 1
    /\ pc # "failed" => Len(stats.vaults) = (IF pc \in {"yield", "done"} THEN current_block + 1
                                            ELSE current_block)
    /\ pc \in {"yield", "done"} =>
           /\ Recorded(stats.vaults, 1, current_block)
           /\ Recorded(stats.psms, 1, current_block)
           /\ Recorded(stats.agents, Len(agents), current_block)
           /\ Recorded(stats.tokens, Len(TokenOrder), current_block)
           /\ Recorded(stats.amms, Len(TokenOrder), current_block)
    /\ pc = "done" => current_block = NumBlocks

\* C10: a run that completes has recorded the snapshot of each block 0..N once,
\* in increasing order of the blocks, and once the snapshot of a block is
\* recorded no balance, reserve or ledger entry changes within that block.
C10_SnapshotOncePerBlock ==
    /\ []C10_Recorded
    /\ [][(\E i \in 1..Len(stats.vaults) : stats.vaults[i].block = current_block')
              => Untouched]_vars

\* a run in which the agents acted has completed
C10_Witness ==
    /\ pc = "done" /\ calls = budget
    /\ Len(stats.vaults) = NumBlocks + 1

\* the wallet holds the tokens and the PSM holds the ETH a redeem of the amount takes
Redeemable(w, tokens, amount) ==
    /\ amount > 0
    /\ \A token \in tokens : token_balance(World, w, token) >= amount
    /\ amount - Frac(amount, RedemptionFee) <= psm.eth_reserve

\* C11: with enough tokens in the wallet and enough ETH in the PSM, the redeems
\* before expiry succeed in every block up to and including the expiry block
\* and are refused with nothing changed in every later block; the redeem after
\* expiry succeeds in the expiry block and in every later one and is refused
\* in every earlier block.
C11_RedeemPhases ==
    [][/\ (CallOf({"redeem_with_ct_and_ds"}) /\ current_block <= PsmExpiryAfterBlock
              /\ Redeemable(last'.agent, {CT, DS}, last'.amount))
          => last'.err = "ok"
       /\ (CallOf({"redeem_with_token_and_ds"}) /\ current_block <= PsmExpiryAfterBlock
              /\ Redeemable(last'.agent, {LST, DS}, last'.amount))
          => last'.err = "ok"
       /\ (CallOf({"redeem_with_ct_and_ds", "redeem_with_token_and_ds"})
              /\ current_block >= PsmExpiryAfterBlock + 1)
          => (last'.err = "ValueError" /\ Untouched)
       /\ (CallOf({"redeem_with_ct_post_expiry"}) /\ current_block >= PsmExpiryAfterBlock
              /\ Redeemable(last'.agent, {CT}, last'.amount))
          => last'.err = "ok"
       /\ (CallOf({"redeem_with_ct_post_expiry"}) /\ current_block < PsmExpiryAfterBlock)
          => (last'.err = "ValueError" /\ Untouched)]_vars

\* a redeem with CT and DS has succeeded in the expiry block itself
C11_Witness ==
    /\ last.op = "redeem_with_ct_and_ds" /\ last.err = "ok"
    /\ current_block = PsmExpiryAfterBlock

\* the amounts x > 0 that wallet w can deposit
Deposits(w) == {x \in {AmountSmall, AmountUnit, eth_balance[w]} : 0 < x /\ x <= eth_balance[w]}

\* s, then psm.deposit_eth(w, x), then psm.redeem_with_ct_and_ds(w, x, b)
DepositThenRedeem(s, w, x, b) == redeem_with_ct_and_ds(psm_deposit_eth(s, w, x).s, w, x, b)

\* the round trip of x by w from s has ended as r says
RoundTrip(s, w, x, r) ==
    /\ r.err = "ok"
    /\ r.ret = x - Frac(x, RedemptionFee)
    /\ r.s.eth_balance[w] = s.eth_balance[w] - Frac(x, RedemptionFee)
    /\ token_balance(r.s, w, CT) = token_balance(s, w, CT)
    /\ token_balance(r.s, w, DS) = token_balance(s, w, DS)
    /\ r.s.psm.token_reserve = s.psm.token_reserve + x
    /\ r.s.psm.eth_reserve = s.psm.eth_reserve + Frac(x, RedemptionFee)

\* C12: from every reachable state, for every wallet w holding x > 0 ETH and
\* every block b before expiry, psm.deposit_eth(w, x) followed by
\* psm.redeem_with_ct_and_ds(w, x, b) succeeds, returns x less the redemption
\* fee, leaves w with its ETH less the fee and with its CT and DS as before,
\* token_reserve greater by x and eth_reserve greater by exactly the fee.
C12_DepositRedeemRoundTrip ==
    \A w \in Wallets : \A x \in Deposits(w) : \A b \in 1..(PsmExpiryAfterBlock - 1) :
        RoundTrip(World, w, x, DepositThenRedeem(World, w, x, b))

\* an agent has deposited its ETH and redeemed the same amount before expiry
C12_Witness ==
    /\ profile = "psm" /\ calls = 2 /\ current_block < PsmExpiryAfterBlock
    /\ last.op = "redeem_with_ct_and_ds" /\ last.err = "ok"
    /\ psm.token_reserve = last.amount
    /\ psm.eth_reserve = PsmSeed * SCALE + Frac(last.amount, RedemptionFee)
    /\ eth_balance[last.agent] = InitialEthBalance * SCALE - Frac(last.amount, RedemptionFee)
    /\ token_balance(World, last.agent, CT) = 0 /\ token_balance(World, last.agent, DS) = 0

\* what counts as rounding: a hundredth of a unit
Rounding == SCALE \div 100
Near(x, y) == Abs(x - y) <= Rounding

\* s, then add_liquidity(w, e, t) ended as r1 says, then remove_liquidity of the
\* shares it minted ended as r2 says: w and the reserves are back where they were
BackAfter(s, p, w, r2) ==
    /\ r2.err = "ok"
    /\ Near(r2.s.eth_balance[w], s.eth_balance[w])
    /\ Near(token_balance(r2.s, w, p), token_balance(s, w, p))
    /\ Near(r2.s.pools[p].reserve_eth, s.pools[p].reserve_eth)
    /\ Near(r2.s.pools[p].reserve_token, s.pools[p].reserve_token)
AddedThenRemoved(s, p, w, r1) ==
    r1.err = "ok" =>
        BackAfter(s, p, w,
                  remove_liquidity(r1.s, p, w, lpt_balance(r1.s, w, p) - lpt_balance(s, w, p)))

\* C13: whenever an agent in its turn can still make two calls, add_liquidity
\* of e ETH and t tokens followed at once by remove_liquidity of the shares
\* minted gives the agent back e and t within rounding and returns the
\* reserves of the pool to what they were.
C13_AddRemoveRoundTrip ==
    (pc = "agents" /\ turn # NoAgent /\ calls + 2 <= budget) =>
        \A p \in PoolsOf(profile) :
            \A e \in {AmountSmall, AmountUnit}, t \in TokenAmounts(turn, p) :
                AddedThenRemoved(World, p, turn, add_liquidity(World, p, turn, e, t))

\* what the ledger says wallet w owes
OwedEth(w) == Get(borrowed_eth, w, 0)
OwedToken(w, token) == Get(Get(borrowed_token, w, EmptyDict), token, 0)

\* C14: a repay_eth of more than the wallet owes (or when it owes nothing) and
\* a repay_token of more than the wallet owes of the token fail with
\* ValueError and leave the ledger, its totals and every balance unchanged.
C14_OverRepayRefused ==
    [][/\ (CallOf({"repay_eth"}) /\ last'.amount > OwedEth(last'.agent))
          => (last'.err = "ValueError" /\ Untouched)
       /\ (CallOf({"repay_token"}) /\ last'.amount > OwedToken(last'.agent, last'.target))
          => (last'.err = "ValueError" /\ Untouched)]_vars

\* a wallet that owes ETH has tried to repay more than it owes and was refused
C14_Witness ==
    /\ last.op = "repay_eth" /\ last.err = "ValueError"
    /\ OwedEth(last.agent) > 0 /\ last.amount > OwedEth(last.agent)
    /\ eth_balance[last.agent] >= last.amount

\* reserve_eth * reserve_token of pool p
Product(s, p) == MulDiv(s.pools[p].reserve_eth, s.pools[p].reserve_token, 1)

\* a swap in pool p from s that ended as r says kept the product and the reserves
ProductKept(s, p, r) ==
    r.err = "ok" =>
        /\ Product(r.s, p) >= Product(s, p)
        /\ r.s.pools[p].reserve_eth > 0
        /\ r.s.pools[p].reserve_token > 0

\* C15: in every reachable state in which an agent has its turn, a swap of a
\* positive amount by the agent in the constant-product pool that succeeds
\* leaves reserve_eth * reserve_token at least what it was and both reserves
\* strictly positive.
C15_ProductNeverFalls ==
    (pc = "agents" /\ turn # NoAgent) =>
        /\ \A amount \in {x \in EthAmounts(turn) \cup {AmountSmall} : x > 0} :
               ProductKept(World, LST, swap_eth_for_token(World, LST, turn, amount))
        /\ \A amount \in {x \in TokenAmounts(turn, LST) \cup {AmountSmall} : x > 0} :
               ProductKept(World, LST, swap_token_for_eth(World, LST, turn, amount))

\* the events of the schedule whose block is b, in schedule order
ScheduledAt(b) ==
    LET here(event) == event.block = b
    IN  SelectSeq(Events, here)

\* the lines an applied event can leave in the log of its block; a depeg or a
\* repeg that finds nothing to move leaves none
Leaves(event) ==
    IF event.type = "yield_adjustment" THEN {<< "Adjusted yield" >>}
    ELSE IF event.type = "eth_yield_adjustment" THEN {<< "Adjusted ETH yield" >>}
    ELSE IF event.type = "depeg"
    THEN {<< "Depegged downwards" >>, << "Depegged upwards" >>, << >>}
    ELSE {<< "Repegged by adding ETH" >>, << "Repegged by removing tokens" >>, << >>}

RECURSIVE LinesOf(_)
LinesOf(events) ==
    IF events = << >> THEN {<< >>}
    ELSE {head \o tail : head \in Leaves(Head(events)), tail \in LinesOf(Tail(events))}

\* C16: an event phase of block b that ends without an exception has applied
\* the scheduled events whose block is b, each once and in schedule order, and
\* no other event: what it added to the log of the block is the lines of those
\* events, in that order, and the closing empty line.
C16_EventsInTheirBlock ==
    [][(pc = "events" /\ pc' = "shuffle") =>
           \E lines \in LinesOf(ScheduledAt(current_block)) :
               actions' = actions \o lines \o << "" >>]_vars

\* the event phase of block 2 has applied the depeg and then the ETH yield adjustment
C16_Witness ==
    /\ pc = "shuffle" /\ current_block = 2
    /\ Len(actions) >= 3
    /\ SubSeq(actions, Len(actions) - 2, Len(actions))
           = << "Depegged downwards", "Adjusted ETH yield", "" >>

\* price_of_one_token_in_eth of the pool of the token
Price == price_of_one_token_in_eth(World, LST).ret

\* one unit of rounding in each reserve moves the product by the other reserve
SameProduct(before, after) ==
    Abs(Product(after, LST) - Product(before, LST))
        <= after.pools[LST].reserve_eth + after.pools[LST].reserve_token

\* the step went through swap_eth_for_token or swap_token_for_eth with the
\* manager's wallet: what left the pool was paid into the wallet, and the swap
\* wrote the fee ledger of the block
BySwap ==
    /\ pools'[LST].reserve_eth < pools[LST].reserve_eth =>
           /\ eth_balance'[EventWallet] - eth_balance[EventWallet]
                  = pools[LST].reserve_eth - pools'[LST].reserve_eth
           /\ current_block \in DOMAIN pools'[LST].fee_accumulated_token
    /\ pools'[LST].reserve_token < pools[LST].reserve_token =>
           /\ token_balance(World', EventWallet, LST) - token_balance(World, EventWallet, LST)
                  = pools[LST].reserve_token - pools'[LST].reserve_token
           /\ current_block \in DOMAIN pools'[LST].fee_accumulated_eth

DepegDone ==
    /\ Near(Price', Frac(Price, PerMille - last'.amount))
    /\ SameProduct(World, World')
    /\ pools'[LST] # pools[LST]
    /\ BySwap

C18_RepegToOne ==
    [][(CallOf({"repeg"}) /\ pools[LST].fee = 0) => Near(Price', SCALE)]_vars

\* the ETH yield in force in block b: the value of the last eth_yield_adjustment
\* event of an earlier block, or the rate configured at construction
RECURSIVE EthYieldFrom(_, _, _)
EthYieldFrom(b, i, rate) ==
    IF i > Len(Events) THEN rate
    ELSE IF Events[i].type = "eth_yield_adjustment" /\ Events[i].block < b
    THEN EthYieldFrom(b, i + 1, Events[i].percentage)
    ELSE EthYieldFrom(b, i + 1, rate)

EthYieldIn(b) == EthYieldFrom(b, 1, InitialEthYieldPerBlock)

\* C19: the yield distribution of a block credits every wallet its balance
\* times the ETH yield in force, which after an eth_yield_adjustment event is
\* the value of the event and no longer the rate configured at construction.
C19_EthYieldOverwritten ==
    [][(pc = "yield" /\ pc' = "events") =>
           \A w \in Wallets :
               eth_balance'[w] = eth_balance[w] + Frac(eth_balance[w], EthYieldIn(current_block'))]_vars

\* a reserve after an inject_liquidity delta: a delta strictly between -1 and 0
\* takes that fraction of the reserve away, any other delta is an amount
Injected(reserve, delta) ==
    IF 0 - SCALE < delta /\ delta < 0 THEN reserve + Mul(reserve, delta) ELSE reserve + delta

\* C20: a set_price event that run_simulation injected leaves the price of the
\* pool at its new_price, and an inject_liquidity event changes both reserves
\* by its deltas.
C20_ScenarioEventsApplied ==
    [][/\ CallOf({"set_price"}) => Near(Price', last'.amount)
       /\ CallOf({"inject_liquidity"}) =>
              /\ pools'[LST].reserve_eth = Injected(pools[LST].reserve_eth, last'.amount)
              /\ pools'[LST].reserve_token = Injected(pools[LST].reserve_token, last'.amount)]_vars

\* a call on pool p by wallet w from s that ended as r says was refused and
\* changed nothing of the pool or of the wallet
Refused(s, p, w, r) ==
    /\ r.err = "ValueError"
    /\ r.s.pools[p] = s.pools[p]
    /\ r.s.eth_balance[w] = s.eth_balance[w]
    /\ r.s.token_balances[w] = s.token_balances[w]
    /\ r.s.lpt_balances[w] = s.lpt_balances[w]

\* C21: in every reachable state in which an agent has its turn, a swap, an
\* add_liquidity or a remove_liquidity of a zero or negative quantity fails
\* with a bad-amount error and leaves the reserves, the LP supply, the fee
\* ledger and the caller's wallet as they were.
C21_BadAmountRefused ==
    (pc = "agents" /\ turn # NoAgent) =>
        \A p \in PoolsOf(profile) : \A quantity \in {0, 0 - AmountUnit} :
            /\ Refused(World, p, turn, swap_eth_for_token(World, p, turn, quantity))
            /\ Refused(World, p, turn, swap_token_for_eth(World, p, turn, quantity))
            /\ Refused(World, p, turn, add_liquidity(World, p, turn, quantity, quantity))
            /\ Refused(World, p, turn, remove_liquidity(World, p, turn, quantity))

\* a vault.deposit_eth that returns, into the vault of a freshly registered
\* token: it has issued no shares, its wallet is empty and it owes nothing
FirstDeposit ==
    /\ CallOf({"vault.deposit_eth"})
    /\ last'.err = "ok"
    /\ lp_token_supply = 0
    /\ eth_balance[VaultWallet] = 0
    /\ \A t \in {LST, CT, DS} : token_balance(World, VaultWallet, t) = 0
    /\ VaultEthDebt(World) = 0
    /\ VaultCtDebt(World) = 0

\* C22 as stated: after the first vault.deposit_eth on a fresh token the vault
\* holds a DS balance strictly greater than 0.
C22_DsResidual ==
    [][FirstDeposit => token_balance(World', VaultWallet, DS) > 0]_vars

\* C22, amended: after the first vault.deposit_eth the vault holds no DS (every
\* pass of the recursive split sells all the DS it minted); what remains in
\* the vault is the CT kept back and an ETH residual below the threshold, and
\* the shares issued equal the deposit.
C22_NoDsLeft ==
    [][FirstDeposit =>
           /\ token_balance(World', VaultWallet, DS) = 0
           /\ token_balance(World', VaultWallet, CT) > 0
           /\ eth_balance'[VaultWallet] < Threshold
           /\ lp_token_supply' = last'.amount
           /\ lpt_balance(World', last'.agent, VaultPool) = last'.amount]_vars

\* the first deposit of one ETH has returned
C22_Witness ==
    /\ last.op = "vault.deposit_eth" /\ last.err = "ok" /\ calls = 1
    /\ last.amount = AmountUnit
    /\ lp_token_supply = AmountUnit
    /\ token_balance(World, VaultWallet, DS) = 0
    /\ token_balance(World, VaultWallet, CT) > 0
    /\ pools[DS].reserve_token > BaseReserve * SCALE

OwnYield ==
    distribute_yield(add_action_marker([World EXCEPT !.current_block = current_block + 1]))

\* C24: a step of a deep-copied engine changes no wallet and no block counter
\* of the engine it was copied from, and the yield distribution of a copy
\* reaches the wallets of that copy
C24_CopiesShareNothing ==
    [][/\ origin'.eth_balance = origin.eth_balance
       /\ origin'.token_balances = origin.token_balances
       /\ origin'.current_block = origin.current_block
       /\ (pc = "yield" /\ pc' = "events")
              => /\ eth_balance' = OwnYield.eth_balance
                 /\ token_balances' = OwnYield.token_balances]_vars

C26_LiquidityAllOrNothing ==
    [][(CallOf({"add_liquidity", "remove_liquidity"}) /\ last'.err # "ok") =>
           /\ pools' = pools
           /\ eth_balance' = eth_balance
           /\ token_balances' = token_balances
           /\ lpt_balances' = lpt_balances]_vars

\* C27: in every reachable state total_borrowed_eth is the sum of the entries of
\* borrowed_eth, total_borrowed_token of every token is the sum of the entries
\* of the wallets for it, and none of these amounts is negative
C27_LedgerSums ==
    LET SumOwedToken(token) ==
            SumDict([w \in DOMAIN borrowed_token |->
                         Get(borrowed_token[w], token, 0)])
    IN
    /\ total_borrowed_eth = SumDict(borrowed_eth)
    /\ total_borrowed_eth >= 0
    /\ \A w \in DOMAIN borrowed_eth : borrowed_eth[w] >= 0
    /\ \A token \in Tokens :
           /\ Get(total_borrowed_token, token, 0) = SumOwedToken(token)
           /\ Get(total_borrowed_token, token, 0) >= 0
    /\ \A w \in DOMAIN borrowed_token :
           \A token \in DOMAIN borrowed_token[w] : borrowed_token[w][token] >= 0

\* a repayment has failed while ETH and CT are owed, after three calls of the
\* ledger
C27_Witness ==
    /\ last.op \in {"repay_eth", "repay_token"} /\ last.err = "ValueError"
    /\ calls = MaxLedgerCalls
    /\ total_borrowed_eth > 0
    /\ Get(total_borrowed_token, CT, 0) > 0

\* C28: a repay_eth or repay_token that fails leaves the borrow ledger and its
\* totals as they were: no debt is removed unless the amount has been taken
\* from the wallet
C28_FailedRepayKeepsDebt ==
    [][(CallOf({"repay_eth", "repay_token"}) /\ last'.err # "ok") =>
           /\ borrowed_eth' = borrowed_eth
           /\ total_borrowed_eth' = total_borrowed_eth
           /\ borrowed_token' = borrowed_token
           /\ total_borrowed_token' = total_borrowed_token]_vars

\* a redeem of amount_tokens from s that ended as r says, failing for the short
\* reserve, has changed nothing of wallet w and of the PSM
ShortReserveChangesNothing(s, w, amount_tokens, r) ==
    (/\ r.err # "ok"
     /\ amount_tokens - Frac(amount_tokens, RedemptionFee) > s.psm.eth_reserve) =>
        /\ r.s.token_balances[w] = s.token_balances[w]
        /\ r.s.eth_balance[w] = s.eth_balance[w]
        /\ r.s.psm = s.psm

\* C29: a redeem of the PSM that fails because the net ETH exceeds eth_reserve
\* leaves the CT, DS and LST of the caller, the reserves of the PSM and its fee
\* totals as they were
C29_ShortReserveChangesNothing ==
    (pc = "agents" /\ turn # NoAgent) =>
        \A amount \in {AmountUnit} \cup {token_balance(World, turn, t) : t \in {LST, CT, DS}} :
            /\ ShortReserveChangesNothing(World, turn, amount,
                   redeem_with_ct_and_ds(World, turn, amount, current_block))
            /\ ShortReserveChangesNothing(World, turn, amount,
                   redeem_with_token_and_ds(World, turn, amount, current_block))
            /\ ShortReserveChangesNothing(World, turn, amount,
                   redeem_with_ct_post_expiry(World, turn, amount, current_block))

\* a repayment by wallet w from s that ended as r says has raised neither the
\* ETH of the wallet nor what the ledger says it owes nor the total
RepayRaisesNothing(s, w, r) ==
    /\ r.s.eth_balance[w] <= s.eth_balance[w]
    /\ Get(r.s.borrowed_eth, w, 0) <= Get(s.borrowed_eth, w, 0)
    /\ r.s.total_borrowed_eth <= s.total_borrowed_eth

\* C30: repay_eth refuses an amount that is zero or negative, as repay_token
\* does, and no repayment raises the ETH of the wallet, its recorded debt or
\* total_borrowed_eth
C30_RepayNeverLends ==
    (pc = "agents" /\ turn # NoAgent) =>
        \A amount \in {0 - AmountUnit, 0, AmountUnit} :
            /\ amount <= 0 => /\ repay_eth(World, turn, amount).err = "ValueError"
                              /\ repay_token(World, turn, CT, amount).err = "ValueError"
            /\ RepayRaisesNothing(World, turn, repay_eth(World, turn, amount))
            /\ RepayRaisesNothing(World, turn, repay_token(World, turn, CT, amount))

====
